---- MODULE Spec2Model ----
(***************************************************************************)
(* A model of the Vast.ai auto shut-off monitor.                           *)
(*                                                                         *)
(* src/monitor_process.py is the monitor process: main() polls the command *)
(* directory, probes the watched processes, keeps the inactivity timer and *)
(* asks the control plane to list and delete the selected instances.       *)
(*                                                                         *)
(* Time is counted in whole seconds since main() initialised its locals    *)
(* (line 218).  One loop iteration ("tick") is one atomic step taken at    *)
(* the instant `now`: every datetime.now() of an iteration reads the same  *)
(* value, and time passes only in the time.sleep() that ends it.           *)
(***************************************************************************)
EXTENDS Integers, Sequences, FiniteSets, TLC

(***************************************************************************)
(* Bounds of the model.                                                    *)
(***************************************************************************)
\* the loop with its controller runs until MaxTime, the loop alone until MaxTimerTime
MaxTime == 25
MaxTimerTime == 140
\* files of one kind that may wait in the command directory
MaxFiles == 2
\* command files the controller writes during one run of the loop
MaxWrites == 2
\* the loop beside its controller and the interrupt signal runs until MaxExitTime
MaxExitTime == 15
\* the loop in the environment of failing status writes and unanswered
\* requests runs until MaxFaultTime
MaxFaultTime == 15
\* the status files beside their reader: seconds of the file names
MaxStatusTime == 3
\* the loop of the standalone script and of MonitorThread runs until
\* MaxWorkerTime
MaxWorkerTime == 240
\* MonitorThread beside the UI thread runs until MaxThreadTime
MaxThreadTime == 8
\* the loop after a delete_now sent at the start runs until MaxDrainTime
MaxDrainTime == 80
\* command files of one kind beside one call of check_for_commands
MaxRaceNames == 1
\* the loop beside the pause button runs until MaxOrderTime, with at most
\* MaxClicks clicks
MaxOrderTime == 6
MaxClicks == 3
\* one call of is_process_running: characters of --processes, characters of
\* a process name, processes the operating system lists
MaxWatchLen == 3
MaxNameLen == 2
MaxProcs == 2
\* one call of get_instances: characters of the identifier
MaxSelLen == 2

(***************************************************************************)
(* Program constants.                                                      *)
(***************************************************************************)
CHECK_INTERVAL == 5
COMMAND_CHECK_INTERVAL == 1
\* timedelta(minutes=1) of the zero-match retry, in seconds
RETRY_SECONDS == 60

\* --timeout (minutes, a float) in seconds: 0.2 and 0.3 minutes beside the
\* controller, 0.5 and 1.25 minutes for the loop alone
Timeouts == {12, 18}
TimerTimeouts == {30, 75}
\* check_interval_seconds and timeout_minutes (1 minute) of the
\* configuration the standalone script and MonitorThread read
StandaloneInterval == 30
WorkerTimeouts == {60}
\* the same for MonitorThread beside the UI thread: 3 seconds, 0.1 minutes
ThreadInterval == 3
ThreadTimeouts == {6}

None == -1

(***************************************************************************)
(* The command directory: how many files match each pattern.               *)
(* "command" stands for a file no pattern of check_for_commands matches    *)
(* (sendCommand's fallback name command_<ts>.json).                        *)
(***************************************************************************)
Recognised == {"stop", "delete_now", "pause", "resume"}
AllKinds == Recognised \cup {"command"}
EmptyDir == [k \in AllKinds |-> 0]

\* Outcomes of the os.remove calls of one scan: rm[k] is the number of files of
\* kind k removed before an os.remove raises; rm[k] = dir[k] is removal without
\* an error.
RemovalOutcomes(dir) == {rm \in [Recognised -> 0..MaxFiles] : \A k \in Recognised : rm[k] <= dir[k]}

(***************************************************************************)
(* Selectors and labels are strings: tuples of one-character strings.      *)
(***************************************************************************)
Digits == <<"0", "1", "2", "3", "4", "5", "6", "7", "8", "9">>
IsDigit(c) == \E d \in 1..10 : Digits[d] = c
DigitValue(c) == (CHOOSE d \in 1..10 : Digits[d] = c) - 1

RECURSIVE DigitsValue(_)
DigitsValue(s) == IF s = <<>> THEN 0 ELSE 10 * DigitsValue(SubSeq(s, 1, Len(s) - 1)) + DigitValue(s[Len(s)])

RECURSIVE Strip(_)
Strip(s) ==
    IF s = <<>> THEN s
    ELSE IF Head(s) = " " THEN Strip(Tail(s))
    ELSE IF s[Len(s)] = " " THEN Strip(SubSeq(s, 1, Len(s) - 1))
    ELSE s

\* int(identifier): [ok, value]; ok = FALSE is ValueError
ParseInt(identifier) ==
    LET t == Strip(identifier)
        signed == t # <<>> /\ Head(t) \in {"+", "-"}
        body == IF signed THEN Tail(t) ELSE t
        ok == body # <<>> /\ \A i \in 1..Len(body) : IsDigit(body[i])
    IN  IF ~ok THEN [ok |-> FALSE, value |-> 0]
        ELSE [ok |-> TRUE, value |-> IF signed /\ Head(t) = "-" THEN 0 - DigitsValue(body) ELSE DigitsValue(body)]

JobLabel == <<"j", "o", "b">>
OtherLabel == <<"g", "p", "u">>
\* what the account holds on the control plane when monitoring starts
Instances == {[id |-> 1, label |-> JobLabel], [id |-> 2, label |-> JobLabel], [id |-> 3, label |-> OtherLabel]}
Ids(insts) == {i.id : i \in insts}

(***************************************************************************)
(* Process names and the --processes string.                               *)
(***************************************************************************)
\* the sequences over S of length at most n
SeqsUpTo(S, n) == UNION {[1..k -> S] : k \in 0..n}

UpperCase == <<"A", "B">>
LowerCase == <<"a", "b">>
\* str.lower(), character by character
LowerChar(c) == IF \E k \in 1..Len(UpperCase) : UpperCase[k] = c
                THEN LowerCase[CHOOSE k \in 1..Len(UpperCase) : UpperCase[k] = c]
                ELSE c
Lower(s) == [i \in 1..Len(s) |-> LowerChar(s[i])]

\* str.split(','): the parts between the commas, empty parts kept
RECURSIVE Split(_)
Split(s) ==
    IF \A i \in 1..Len(s) : s[i] # ","
    THEN <<s>>
    ELSE LET i == CHOOSE j \in 1..Len(s) : s[j] = "," /\ \A k \in 1..(j - 1) : s[k] # ","
         IN  <<SubSeq(s, 1, i - 1)>> \o Split(SubSeq(s, i + 1, Len(s)))

\* Python's "sub in s"
In(sub, s) == \E i \in 1..(Len(s) - Len(sub) + 1) : SubSeq(s, i, i + Len(sub) - 1) = sub

\* the characters of a process name and of the --processes string
NameChars == {"A", "b"}
WatchChars == {"a", "b", " ", ","}
ProcessNames == SeqsUpTo(NameChars, MaxNameLen)
\* what psutil.process_iter yields: the names of the processes
ProcessSnapshots == {S \in SUBSET ProcessNames : Cardinality(S) <= MaxProcs}

(***************************************************************************)
(* is_process_running of the monitor process                               *)
(* (src/monitor_process.py:67-80): True at the first process and the first *)
(* entry of process_names.split(',') whose stripped, lower-cased text is   *)
(* in the lower-cased process name.                                        *)
(***************************************************************************)
\* is_process_running that does not strip the entries
is_process_running_unstripped(process_names, procs) ==
    LET process_list == Split(process_names)
    IN  \E proc \in procs : \E k \in 1..Len(process_list) :
            In(Lower(process_list[k]), Lower(proc))

is_process_running(process_names, procs) ==
    LET process_list == Split(process_names)
    IN  \E proc \in procs : \E k \in 1..Len(process_list) :
            In(Lower(Strip(process_list[k])), Lower(proc))

(***************************************************************************)
(* is_process_running of the standalone script                             *)
(* (src/vast_auto_shutoff.py:91-101): process_names is the list main       *)
(* passes, config's process_names .split(',') (line 202); True when some   *)
(* entry, lower-cased, equals the lower-cased process name.                *)
(***************************************************************************)
standalone_is_process_running(process_names, procs) ==
    \E proc \in procs : \E k \in 1..Len(process_names) :
        Lower(process_names[k]) = Lower(proc)

(***************************************************************************)
(* A process that denies access or is a zombie: psutil.process_iter        *)
(* (['pid', 'name']) yields it with info['name'] = None.  Both functions   *)
(* call .lower() on the name (src/monitor_process.py:74,                   *)
(* src/vast_auto_shutoff.py:95); on None that raises AttributeError, which *)
(* "except (NoSuchProcess, AccessDenied, ZombieProcess)" does not catch.   *)
(* The functions return True at the first match, so the exception is       *)
(* raised when the process without a name is visited before a match.       *)
(* unnamed is where process_iter yields such a process: "none", "first"    *)
(* (ahead of the named processes) or "last" (after them).                  *)
(***************************************************************************)
Unnamed == {"none", "first", "last"}

is_process_running_raises(process_names, procs, unnamed) ==
    /\ Len(Split(process_names)) > 0
    /\ \/ unnamed = "first"
       \/ unnamed = "last" /\ ~is_process_running(process_names, procs)

standalone_is_process_running_raises(process_names, procs, unnamed) ==
    \/ unnamed = "first"
    \/ unnamed = "last" /\ ~standalone_is_process_running(process_names, procs)

VARIABLES
    now,                  \* wall clock, seconds
    timeout_seconds,      \* args.timeout * 60
    instance_identifier,  \* args.label
    process_running,      \* main's local
    last_seen_running,    \* main's local
    paused,               \* main's local
    pc,                   \* "loop": main is in its while loop; "exited"; "scan", "scanned": one call of check_for_commands
    exit_code,            \* of the process, None while it runs
    commands,             \* the command directory
    remote,               \* the instances the control plane holds
    written,              \* command files the controller has written
    scan,                 \* one call of check_for_commands: directory before, removals, result
    tick,                 \* what the last loop iteration did
    hist,                 \* history of the probes and of the timeout deletions
    probe_call,           \* one call of is_process_running: arguments, process snapshot, results
    list_call,            \* one call of get_instances: the API's answer, the identifier, the result
    status_dir,           \* the status directory: the file written last
    exited_by,            \* how main left its loop: "none", "stop", "deleted", "error", "interrupt", "crash"
    status_io,            \* the status files on disk, update_status in progress and the controller's read
    worker,               \* the loop of the standalone script and of MonitorThread: fields, position, last tick
    order,                \* the controller's pause and resume commands in the order of their writing
    race                  \* one check_for_commands call, step by step, beside a process that removes files

vars == <<now, timeout_seconds, instance_identifier, process_running, last_seen_running, paused, pc, exit_code, commands, written, remote, scan, tick, hist, probe_call, list_call, status_dir, exited_by, status_io, worker, order, race>>

(***************************************************************************)
(* check_for_commands (src/monitor_process.py:143-192).                    *)
(* Each block globs one pattern; when files match it removes them one by   *)
(* one and returns the kind.  An os.remove that raises is logged and the   *)
(* function goes on to the next block, the files removed so far stay       *)
(* removed.  The result is the command ("none" for None) and the directory *)
(* the call leaves behind.                                                 *)
(***************************************************************************)
Removed(dir, rm, k) == [dir EXCEPT ![k] = dir[k] - rm[k]]
AllRemoved(dir, rm, k) == dir[k] > 0 /\ rm[k] = dir[k]

\* check_for_commands with the pause block ahead of the delete_now block
check_for_commands_pause_first(dir, rm) ==
    LET d1 == Removed(dir, rm, "stop")
        d2 == Removed(d1, rm, "pause")
        d3 == Removed(d2, rm, "delete_now")
        d4 == Removed(d3, rm, "resume")
    IN  IF AllRemoved(dir, rm, "stop") THEN [command |-> "stop", dir |-> d1]
        ELSE IF AllRemoved(d1, rm, "pause") THEN [command |-> "pause", dir |-> d2]
        ELSE IF AllRemoved(d2, rm, "delete_now") THEN [command |-> "delete_now", dir |-> d3]
        ELSE IF AllRemoved(d3, rm, "resume") THEN [command |-> "resume", dir |-> d4]
        ELSE [command |-> "none", dir |-> d4]

\* check_for_commands that removes the files of every kind and returns the
\* kind of highest priority among them
check_for_commands_consume_all(dir, rm) ==
    LET d == [k \in AllKinds |-> IF k \in Recognised THEN dir[k] - rm[k] ELSE dir[k]]
    IN  IF AllRemoved(dir, rm, "stop") THEN [command |-> "stop", dir |-> d]
        ELSE IF AllRemoved(dir, rm, "delete_now") THEN [command |-> "delete_now", dir |-> d]
        ELSE IF AllRemoved(dir, rm, "pause") THEN [command |-> "pause", dir |-> d]
        ELSE IF AllRemoved(dir, rm, "resume") THEN [command |-> "resume", dir |-> d]
        ELSE [command |-> "none", dir |-> d]

\* check_for_commands that returns the kind of the first block whose glob
\* matched, whether or not every os.remove of the block succeeded
check_for_commands_returns_on_failure(dir, rm) ==
    LET d1 == Removed(dir, rm, "stop")
        d2 == Removed(dir, rm, "delete_now")
        d3 == Removed(dir, rm, "pause")
        d4 == Removed(dir, rm, "resume")
    IN  IF dir["stop"] > 0 THEN [command |-> "stop", dir |-> d1]
        ELSE IF dir["delete_now"] > 0 THEN [command |-> "delete_now", dir |-> d2]
        ELSE IF dir["pause"] > 0 THEN [command |-> "pause", dir |-> d3]
        ELSE IF dir["resume"] > 0 THEN [command |-> "resume", dir |-> d4]
        ELSE [command |-> "none", dir |-> dir]

check_for_commands(dir, rm) ==
    LET d1 == Removed(dir, rm, "stop")
        d2 == Removed(d1, rm, "delete_now")
        d3 == Removed(d2, rm, "pause")
        d4 == Removed(d3, rm, "resume")
    IN  IF AllRemoved(dir, rm, "stop") THEN [command |-> "stop", dir |-> d1]
        ELSE IF AllRemoved(d1, rm, "delete_now") THEN [command |-> "delete_now", dir |-> d2]
        ELSE IF AllRemoved(d2, rm, "pause") THEN [command |-> "pause", dir |-> d3]
        ELSE IF AllRemoved(d3, rm, "resume") THEN [command |-> "resume", dir |-> d4]
        ELSE [command |-> "none", dir |-> d4]

(***************************************************************************)
(* get_instances (src/monitor_process.py:82-127): the instances the API    *)
(* lists, filtered by the identifier.  apiOk = FALSE is a request that     *)
(* raises (transport, HTTP status) or an answer without 'instances': the   *)
(* function logs and returns the empty list.                               *)
(***************************************************************************)
get_instances(listed, identifier, apiOk) ==
    IF ~apiOk THEN {}
    ELSE IF identifier = <<>> THEN listed
    ELSE IF ParseInt(identifier).ok THEN {i \in listed : i.id = ParseInt(identifier).value}
    ELSE {i \in listed : i.label = identifier}

\* a "for instance in instances" loop that ends after its first
\* delete_instance call
DeleteCalls_first_only(instances) ==
    {i.id : i \in {j \in instances : j.id # 0 /\ \A k \in instances : k.id # 0 => j.id <= k.id}}

\* the delete_instance calls of one "for instance in instances" loop: an
\* instance whose id is falsy is skipped
DeleteCalls(instances) == {i.id : i \in {j \in instances : j.id # 0}}

(***************************************************************************)
(* update_status (src/monitor_process.py:51-65): the snapshot one call     *)
(* publishes.                                                              *)
(***************************************************************************)
Snapshot(status, running, remaining) == [status |-> status, process_running |-> running, time_remaining |-> remaining]

(***************************************************************************)
(* update_status writes the snapshot to status/status_<int(time.time())>   *)
(* .json, opened with mode "w" (src/monitor_process.py:61-63).  File names *)
(* grow with the clock, so a call can only meet the name of the file       *)
(* written last; the directory is kept as that file: its name (the second  *)
(* of the write), its content, and whether the call that wrote it wrote to *)
(* a name an earlier call of the run had written.                          *)
(***************************************************************************)
EmptyStatusDir == [name |-> None, snapshot |-> Snapshot("", FALSE, None), replaced |-> FALSE]

update_status(D, t, snapshot) == [name |-> t, snapshot |-> snapshot, replaced |-> D.name = t]

\* the update_status calls of one iteration, in order
RECURSIVE PublishAll(_, _, _)
PublishAll(D, t, published) ==
    IF published = <<>> THEN D
    ELSE PublishAll(update_status(D, t, Head(published)), t, Tail(published))

(***************************************************************************)
(* delete_instance (src/monitor_process.py:129-141): True when the DELETE  *)
(* request is answered with success; raise_for_status raises for every     *)
(* other answer, "not found" included, and for a request that fails, and   *)
(* the function returns False.                                             *)
(***************************************************************************)
DeleteAnswers == {"ok", "not_found", "error"}
\* the answers while no instance leaves the control plane behind the loop's back
PlainAnswers == {"ok", "error"}
\* "hang": the request is never answered; requests.delete is called without
\* a timeout (line 134), so the call does not return
FaultAnswers == {"ok", "error", "hang"}
delete_instance(answer) == answer = "ok"

\* the delete calls of one "for instance in instances" loop that returned
\* (the loop visits the instances in the order of their ids): those ahead
\* of the first call that is never answered; and the calls that were made
Hung(answers) == {id \in DOMAIN answers : answers[id] = "hang"}
Answered(answers) == [id \in {i \in DOMAIN answers : \A k \in Hung(answers) : i < k} |-> answers[id]]
Called(answers) == {i \in DOMAIN answers : \A k \in Hung(answers) : i <= k}

\* the ids of the calls for which delete_instance returns True, and the ids
\* the control plane no longer held when the request arrived
Succeeded(answers) == {id \in DOMAIN answers : delete_instance(answers[id])}
NotFound(answers) == {id \in DOMAIN answers : answers[id] = "not_found"}

(***************************************************************************)
(* How main ends (src/monitor_process.py:229-233, 293-294, 321-329).       *)
(* "stop" is sys.exit(0); after the break of a successful timeout          *)
(* deletion, after the KeyboardInterrupt handler and after the handler of  *)
(* any other exception main logs "exiting" and returns, and the            *)
(* interpreter ends with code 0.  "crash": the update_status call of the   *)
(* exception handler (line 327) raises itself; nothing catches it, the     *)
(* interpreter prints the traceback and ends with code 1.                  *)
(***************************************************************************)
ExitReasons == {"stop", "deleted", "error", "interrupt", "crash"}
exit_code_of(reason) == IF reason = "crash" THEN 1 ELSE 0

\* a KeyboardInterrupt handler that publishes nothing
OnKeyboardInterrupt_silent(L) == <<>>

\* except KeyboardInterrupt (lines 321-323) and except Exception (324-327)
OnKeyboardInterrupt(L) == <<Snapshot("Monitoring Stopped", L.process_running, None)>>
OnException(L) == <<Snapshot("Error", L.process_running, None)>>

\* main's locals as one value
Locals == [process_running |-> process_running, last_seen_running |-> last_seen_running, paused |-> paused]

(***************************************************************************)
(* The command branch of one iteration (src/monitor_process.py:228-251).   *)
(* instances is what get_instances returned (read only by delete_now),     *)
(* okIds the ids whose delete request succeeds.                            *)
(***************************************************************************)
\* HandleCommand whose pause branch publishes and leaves paused as it was
HandleCommand_pause_lost(L, command, instances, okIds) ==
    LET base == [L |-> L, exit |-> FALSE, published |-> <<>>, listed |-> FALSE, delete_calls |-> {}, deleted |-> {}]
    IN  CASE command = "stop" ->
                [base EXCEPT !.exit = TRUE,
                             !.published = <<Snapshot("Monitoring Stopped", L.process_running, None)>>]
          [] command = "pause" ->
                [base EXCEPT !.published = <<Snapshot("Monitoring Paused", L.process_running, None)>>]
          [] command = "resume" ->
                [base EXCEPT !.L = [L EXCEPT !.paused = FALSE],
                             !.published = <<Snapshot("Monitoring Resumed", L.process_running, None)>>]
          [] command = "delete_now" ->
                [base EXCEPT !.listed = TRUE,
                             !.delete_calls = DeleteCalls(instances),
                             !.deleted = DeleteCalls(instances) \cap okIds]
          [] OTHER -> base

\* HandleCommand whose delete_now branch does nothing while the loop is paused
HandleCommand_delete_now_gated(L, command, instances, okIds) ==
    LET base == [L |-> L, exit |-> FALSE, published |-> <<>>, listed |-> FALSE, delete_calls |-> {}, deleted |-> {}]
    IN  CASE command = "stop" ->
                [base EXCEPT !.exit = TRUE,
                             !.published = <<Snapshot("Monitoring Stopped", L.process_running, None)>>]
          [] command = "pause" ->
                [base EXCEPT !.L = [L EXCEPT !.paused = TRUE],
                             !.published = <<Snapshot("Monitoring Paused", L.process_running, None)>>]
          [] command = "resume" ->
                [base EXCEPT !.L = [L EXCEPT !.paused = FALSE],
                             !.published = <<Snapshot("Monitoring Resumed", L.process_running, None)>>]
          [] command = "delete_now" /\ ~L.paused ->
                [base EXCEPT !.listed = TRUE,
                             !.delete_calls = DeleteCalls(instances),
                             !.deleted = DeleteCalls(instances) \cap okIds]
          [] OTHER -> base

\* HandleCommand whose delete_now branch ends the loop when nothing is listed
HandleCommand_delete_now_zero_exits(L, command, instances, okIds) ==
    LET base == [L |-> L, exit |-> FALSE, published |-> <<>>, listed |-> FALSE, delete_calls |-> {}, deleted |-> {}]
    IN  CASE command = "stop" ->
                [base EXCEPT !.exit = TRUE,
                             !.published = <<Snapshot("Monitoring Stopped", L.process_running, None)>>]
          [] command = "pause" ->
                [base EXCEPT !.L = [L EXCEPT !.paused = TRUE],
                             !.published = <<Snapshot("Monitoring Paused", L.process_running, None)>>]
          [] command = "resume" ->
                [base EXCEPT !.L = [L EXCEPT !.paused = FALSE],
                             !.published = <<Snapshot("Monitoring Resumed", L.process_running, None)>>]
          [] command = "delete_now" ->
                [base EXCEPT !.listed = TRUE,
                             !.exit = (instances = {}),
                             !.delete_calls = DeleteCalls(instances),
                             !.deleted = DeleteCalls(instances) \cap okIds]
          [] OTHER -> base

\* HandleCommand whose pause branch flips paused
HandleCommand_pause_toggles(L, command, instances, okIds) ==
    LET base == [L |-> L, exit |-> FALSE, published |-> <<>>, listed |-> FALSE, delete_calls |-> {}, deleted |-> {}]
    IN  CASE command = "stop" ->
                [base EXCEPT !.exit = TRUE,
                             !.published = <<Snapshot("Monitoring Stopped", L.process_running, None)>>]
          [] command = "pause" ->
                [base EXCEPT !.L = [L EXCEPT !.paused = ~L.paused],
                             !.published = <<Snapshot("Monitoring Paused", L.process_running, None)>>]
          [] command = "resume" ->
                [base EXCEPT !.L = [L EXCEPT !.paused = FALSE],
                             !.published = <<Snapshot("Monitoring Resumed", L.process_running, None)>>]
          [] command = "delete_now" ->
                [base EXCEPT !.listed = TRUE,
                             !.delete_calls = DeleteCalls(instances),
                             !.deleted = DeleteCalls(instances) \cap okIds]
          [] OTHER -> base

HandleCommand(L, command, instances, okIds) ==
    LET base == [L |-> L, exit |-> FALSE, published |-> <<>>, listed |-> FALSE, delete_calls |-> {}, deleted |-> {}]
    IN  CASE command = "stop" ->
                [base EXCEPT !.exit = TRUE,
                             !.published = <<Snapshot("Monitoring Stopped", L.process_running, None)>>]
          [] command = "pause" ->
                [base EXCEPT !.L = [L EXCEPT !.paused = TRUE],
                             !.published = <<Snapshot("Monitoring Paused", L.process_running, None)>>]
          [] command = "resume" ->
                [base EXCEPT !.L = [L EXCEPT !.paused = FALSE],
                             !.published = <<Snapshot("Monitoring Resumed", L.process_running, None)>>]
          [] command = "delete_now" ->
                [base EXCEPT !.listed = TRUE,
                             !.delete_calls = DeleteCalls(instances),
                             !.deleted = DeleteCalls(instances) \cap okIds]
          [] OTHER -> base

\* "if paused: sleep, continue" (src/monitor_process.py:253-256)
SkipMonitoring(L) == L.paused

(***************************************************************************)
(* The probe edge (src/monitor_process.py:259-271): the new locals and the *)
(* snapshot an edge publishes.                                             *)
(***************************************************************************)
\* ProbeEdge that restarts the timer only when the process starts running
ProbeEdge_no_reset_on_stop(L, t, current_process_running) ==
    IF current_process_running # L.process_running
    THEN [L |-> [L EXCEPT !.process_running = current_process_running,
                          !.last_seen_running = IF current_process_running THEN t ELSE L.last_seen_running],
          published |-> <<Snapshot(IF current_process_running THEN "Process Running" ELSE "Process Not Running",
                                   current_process_running, None)>>]
    ELSE [L |-> L, published |-> <<>>]

\* ProbeEdge that restarts the timer only when the process stops running
ProbeEdge_no_reset_on_start(L, t, current_process_running) ==
    IF current_process_running # L.process_running
    THEN [L |-> [L EXCEPT !.process_running = current_process_running,
                          !.last_seen_running = IF current_process_running THEN L.last_seen_running ELSE t],
          published |-> <<Snapshot(IF current_process_running THEN "Process Running" ELSE "Process Not Running",
                                   current_process_running, None)>>]
    ELSE [L |-> L, published |-> <<>>]

\* an edge that is recorded without a status write
ProbeEdge_silent(L, t, current_process_running) ==
    IF current_process_running # L.process_running
    THEN [L |-> [L EXCEPT !.process_running = current_process_running, !.last_seen_running = t],
          published |-> <<>>]
    ELSE [L |-> L, published |-> <<>>]

ProbeEdge(L, t, current_process_running) ==
    IF current_process_running # L.process_running
    THEN [L |-> [L EXCEPT !.process_running = current_process_running, !.last_seen_running = t],
          published |-> <<Snapshot(IF current_process_running THEN "Process Running" ELSE "Process Not Running",
                                   current_process_running, None)>>]
    ELSE [L |-> L, published |-> <<>>]

\* Remaining that runs out one CHECK_INTERVAL after the grace period
Remaining_one_interval_more(L, t, timeout) == timeout + CHECK_INTERVAL - (t - L.last_seen_running)

\* lines 275-276: remaining = timedelta(minutes=timeout_minutes) - (now - last_seen_running)
Remaining(L, t, timeout) == timeout - (t - L.last_seen_running)

\* lines 304-310: the text of the countdown, as the numbers it shows:
\* divmod(int(remaining.total_seconds()), 60), then divmod(minutes, 60), both
\* rounding towards minus infinity; the hours are shown only when positive
FormatRemaining(remaining) ==
    LET minutes == remaining \div 60
        seconds == remaining % 60
        hours == minutes \div 60
    IN  IF hours > 0 THEN <<hours, minutes % 60, seconds>> ELSE <<minutes % 60, seconds>>

\* the seconds a countdown text "{h}h {m}m {s}s" or "{m}m {s}s" stands for
ShownSeconds(text) ==
    IF Len(text) = 3 THEN 3600 * text[1] + 60 * text[2] + text[3] ELSE 60 * text[1] + text[2]

\* lines 274, 278: the timeout branch is taken
TimeoutDue(L, t, timeout) == ~L.process_running /\ Remaining(L, t, timeout) <= 0

(***************************************************************************)
(* The rest of the iteration (src/monitor_process.py:273-316).  instances  *)
(* is what get_instances returns when the timeout branch calls it, okIds   *)
(* the ids whose delete request succeeds.  outcome: "none" (no timeout),   *)
(* "zero" (nothing listed), "failed" (no delete succeeded), "deleted".     *)
(***************************************************************************)
\* TimeoutCheck that goes on monitoring after a timeout deletion succeeded
TimeoutCheck_success_keeps_running(L, t, timeout, instances, okIds) ==
    LET base == [L |-> L, exit |-> FALSE, published |-> <<>>, outcome |-> "none", delete_calls |-> {}, deleted |-> {}]
        remaining == Remaining(L, t, timeout)
        countdown == <<Snapshot("Process Not Running - countdown", FALSE, remaining)>>
    IN  IF L.process_running
        THEN [base EXCEPT !.published = <<Snapshot("Process Running", TRUE, None)>>]
        ELSE IF remaining > 0
        THEN [base EXCEPT !.published = countdown]
        ELSE IF instances = {}
        THEN [base EXCEPT !.L = [L EXCEPT !.last_seen_running = t - timeout + RETRY_SECONDS],
                          !.outcome = "zero",
                          !.published = countdown]
        ELSE IF DeleteCalls(instances) \cap okIds # {}
        THEN [base EXCEPT !.L = [L EXCEPT !.last_seen_running = t],
                          !.outcome = "deleted",
                          !.delete_calls = DeleteCalls(instances),
                          !.deleted = DeleteCalls(instances) \cap okIds,
                          !.published = countdown]
        ELSE [base EXCEPT !.L = [L EXCEPT !.last_seen_running = t],
                          !.outcome = "failed",
                          !.delete_calls = DeleteCalls(instances),
                          !.published = countdown]

\* TimeoutCheck that keeps the timer where it was after every delete failed
TimeoutCheck_failure_keeps_timer(L, t, timeout, instances, okIds) ==
    LET base == [L |-> L, exit |-> FALSE, published |-> <<>>, outcome |-> "none", delete_calls |-> {}, deleted |-> {}]
        remaining == Remaining(L, t, timeout)
        countdown == <<Snapshot("Process Not Running - countdown", FALSE, remaining)>>
    IN  IF L.process_running
        THEN [base EXCEPT !.published = <<Snapshot("Process Running", TRUE, None)>>]
        ELSE IF remaining > 0
        THEN [base EXCEPT !.published = countdown]
        ELSE IF instances = {}
        THEN [base EXCEPT !.L = [L EXCEPT !.last_seen_running = t - timeout + RETRY_SECONDS],
                          !.outcome = "zero",
                          !.published = countdown]
        ELSE IF DeleteCalls(instances) \cap okIds # {}
        THEN [base EXCEPT !.exit = TRUE,
                          !.outcome = "deleted",
                          !.delete_calls = DeleteCalls(instances),
                          !.deleted = DeleteCalls(instances) \cap okIds,
                          !.published = <<Snapshot("Instances Deleted, Monitoring Stopped", FALSE, None)>>]
        ELSE [base EXCEPT !.outcome = "failed",
                          !.delete_calls = DeleteCalls(instances),
                          !.published = countdown]

TimeoutCheck(L, t, timeout, instances, okIds) ==
    LET base == [L |-> L, exit |-> FALSE, published |-> <<>>, outcome |-> "none", delete_calls |-> {}, deleted |-> {}]
        remaining == Remaining(L, t, timeout)
        countdown == <<Snapshot("Process Not Running - countdown", FALSE, remaining)>>
    IN  IF L.process_running
        THEN [base EXCEPT !.published = <<Snapshot("Process Running", TRUE, None)>>]
        ELSE IF remaining > 0
        THEN [base EXCEPT !.published = countdown]
        ELSE IF instances = {}
        THEN [base EXCEPT !.L = [L EXCEPT !.last_seen_running = t - timeout + RETRY_SECONDS],
                          !.outcome = "zero",
                          !.published = countdown]
        ELSE IF DeleteCalls(instances) \cap okIds # {}
        THEN [base EXCEPT !.exit = TRUE,
                          !.outcome = "deleted",
                          !.delete_calls = DeleteCalls(instances),
                          !.deleted = DeleteCalls(instances) \cap okIds,
                          !.published = <<Snapshot("Instances Deleted, Monitoring Stopped", FALSE, None)>>]
        ELSE [base EXCEPT !.L = [L EXCEPT !.last_seen_running = t],
                          !.outcome = "failed",
                          !.delete_calls = DeleteCalls(instances),
                          !.published = countdown]

(***************************************************************************)
(* History of the probes, kept beside the program: it reads the probe      *)
(* results and the outcomes of the iterations, never main's timer.         *)
(*   last_probe    result of the last probe made: "none", "run", "idle"    *)
(*   idle_start    time since which the process counts as not running: the *)
(*                 start of main, or the first not-running probe after a   *)
(*                 running one (None after a running probe)                *)
(*   idle_since    time of the last probe that changed from running to not *)
(*                 running (None after a running probe)                    *)
(*   dirty         a pause or delete_now was consumed since idle_since     *)
(*   fired_at      time of the first timeout deletion since idle_since     *)
(*   late_reset    a running probe came when an earlier countdown had at   *)
(*                 most one CHECK_INTERVAL left and had not run out        *)
(*   zero_at       time of the last timeout deletion that listed nothing,  *)
(*                 while every iteration since probed not running and no   *)
(*                 timeout deletion followed; None otherwise               *)
(*   prev_zero_at  zero_at before the last iteration                       *)
(*   failed_at     time of the last timeout deletion whose deletes all     *)
(*                 failed, while every iteration since probed not running  *)
(*                 and no timeout deletion followed; None otherwise        *)
(*   prev_failed_at  failed_at before the last iteration                   *)
(*   ever_run      a probe has reported the process running                *)
(*   attempts      number of timeout deletions made since main started     *)
(*   prev_outcome  outcome of the timeout deletion before the last one,    *)
(*                 "none" while fewer than two were made                   *)
(*   last_outcome  outcome of the last timeout deletion, "none" before it  *)
(***************************************************************************)
InitHist == [last_probe |-> "none", idle_start |-> 0, idle_since |-> None, dirty |-> FALSE,
             fired_at |-> None, late_reset |-> FALSE, zero_at |-> None, prev_zero_at |-> None,
             failed_at |-> None, prev_failed_at |-> None,
             ever_run |-> FALSE, attempts |-> 0, prev_outcome |-> "none", last_outcome |-> "none"]

NextHist(H, t, timeout, command, probed, probe, outcome) ==
    LET run == probed /\ probe
        idle == probed /\ ~probe
        edge == idle /\ H.last_probe = "run"
        fired == outcome # "none"
    IN  [last_probe |-> IF run THEN "run" ELSE IF idle THEN "idle" ELSE H.last_probe,
         idle_start |-> IF run THEN None ELSE IF edge THEN t ELSE H.idle_start,
         idle_since |-> IF run THEN None ELSE IF edge THEN t ELSE H.idle_since,
         dirty |-> (IF run \/ edge THEN FALSE ELSE H.dirty) \/ command \in {"pause", "delete_now"},
         fired_at |-> IF run THEN None
                      ELSE IF (edge \/ H.fired_at = None) /\ fired THEN t
                      ELSE IF edge THEN None
                      ELSE H.fired_at,
         late_reset |-> H.late_reset \/ (/\ run /\ H.last_probe = "idle"
                                         /\ t - H.idle_start >= timeout - CHECK_INTERVAL
                                         /\ t - H.idle_start < timeout),
         zero_at |-> IF ~idle THEN None ELSE IF outcome = "zero" THEN t ELSE IF fired THEN None ELSE H.zero_at,
         prev_zero_at |-> H.zero_at,
         failed_at |-> IF ~idle THEN None ELSE IF outcome = "failed" THEN t ELSE IF fired THEN None ELSE H.failed_at,
         prev_failed_at |-> H.failed_at,
         ever_run |-> H.ever_run \/ run,
         attempts |-> IF fired THEN H.attempts + 1 ELSE H.attempts,
         prev_outcome |-> IF fired THEN H.last_outcome ELSE H.prev_outcome,
         last_outcome |-> IF fired THEN outcome ELSE H.last_outcome]

InitTick == [time |-> None, before |-> [process_running |-> FALSE, last_seen_running |-> 0, paused |-> FALSE],
             after_command |-> [process_running |-> FALSE, last_seen_running |-> 0, paused |-> FALSE],
             scanned |-> {}, command |-> "none", command_exit |-> FALSE, probed |-> FALSE, probe |-> FALSE,
             dn_listed |-> FALSE, dn_instances |-> {}, dn_calls |-> {}, dn_deleted |-> {},
             timeout |-> "none", to_instances |-> {}, to_calls |-> {}, to_deleted |-> {},
             published |-> <<Snapshot("Monitoring Started", FALSE, None)>>, slept |-> 0,
             dn_api_ok |-> TRUE, to_api_ok |-> TRUE, dn_not_found |-> {}, to_not_found |-> {}, raised |-> FALSE,
             command_found |-> 0, command_left |-> 0, hung |-> FALSE, write_failed |-> FALSE]

\* the status directory after update_status("Monitoring Started") (line 223)
InitStatusDir == update_status(EmptyStatusDir, 0, Snapshot("Monitoring Started", FALSE, None))

(***************************************************************************)
(* The loop of the standalone script (src/vast_auto_shutoff.py:216-264)    *)
(* and of MonitorThread (src/vast_auto_shutoff_gui.py:185-317) before its  *)
(* first iteration.  Beside the fields the record holds what the last      *)
(* iteration did (tick) and, for the current run of not-running            *)
(* iterations, when the deletion was first triggered, first deleted an     *)
(* instance and first had a delete call fail; todo holds the instances of  *)
(* a list whose delete calls are still to be made and late_delete tells    *)
(* that a delete request of the loop was sent while paused was set or      *)
(* running was cleared.                                                    *)
(***************************************************************************)
InitWorkerTick == [time |-> None, probe |-> FALSE, listed |-> FALSE, list_ok |-> TRUE, instances |-> {},
                   calls |-> {}, deleted |-> {}, retry_due |-> FALSE, skipped |-> FALSE]

InitWorker(variant) ==
    [variant |-> variant, check_interval |-> StandaloneInterval, last_active_time |-> 0, instances_terminated |-> FALSE, paused |-> FALSE,
     running |-> TRUE, pc |-> "loop", tick |-> InitWorkerTick,
     fired_at |-> None, deleted_at |-> None, failed_at |-> None, prev_empty |-> FALSE,
     todo |-> {}, late_delete |-> FALSE]

\* the pause button as the window builds it, no click yet
InitOrder == [button |-> "Pause Monitoring", last |-> "none", together |-> FALSE, clicks |-> 0]

\* check_for_commands not yet called, the commands directory empty
InitRace == [pc |-> "idle", dir |-> {}, kind |-> 1, todo |-> {}, found |-> "none", command |-> "none",
             left |-> {}, taken |-> FALSE]

\* an empty status directory, no update_status call and no read in progress
InitStatusIO == [files |-> [name \in 0..MaxStatusTime |-> "absent"], latest |-> None, writing |-> None,
                 picked |-> None, observed |-> "nothing"]

InitProbeCall == [process_names |-> <<>>, procs |-> {}, done |-> FALSE, monitor |-> FALSE, standalone |-> FALSE,
                  unnamed |-> "none", monitor_raised |-> FALSE, standalone_raised |-> FALSE]

InitListCall == [listed |-> {}, identifier |-> <<>>, api_ok |-> TRUE, done |-> FALSE, result |-> {}]

InitScan == [before |-> EmptyDir, rm |-> [k \in Recognised |-> 0], command |-> "none", after |-> EmptyDir]

(***************************************************************************)
(* main() up to its loop (src/monitor_process.py:203-223).                 *)
(***************************************************************************)
InitMain(timeouts, identifiers) ==
    /\ now = 0
    /\ timeout_seconds \in timeouts
    /\ instance_identifier \in identifiers
    /\ process_running = FALSE
    /\ last_seen_running = 0
    /\ paused = FALSE
    /\ pc = "loop"
    /\ exit_code = None
    /\ commands = EmptyDir
    /\ written = 0
    /\ remote = Instances
    /\ scan = InitScan
    /\ tick = InitTick
    /\ hist = InitHist
    /\ probe_call = InitProbeCall
    /\ list_call = InitListCall
    /\ status_dir = InitStatusDir
    /\ exited_by = "none"
    /\ status_io = InitStatusIO
    /\ worker = InitWorker("standalone")
    /\ order = InitOrder
    /\ race = InitRace

Init == InitMain(Timeouts, {JobLabel})

NoTimeout(L) == [L |-> L, exit |-> FALSE, published |-> <<>>, outcome |-> "none", delete_calls |-> {}, deleted |-> {}]

(***************************************************************************)
(* One iteration of the while loop (src/monitor_process.py:225-319), its   *)
(* sleep included.  The inputs: the outcome of the file removals, of the   *)
(* probe (a result, or an exception that leaves the loop for the handler   *)
(* of lines 324-327), of every request to the control plane and of every   *)
(* status write.  An instance whose delete is answered "not found" left    *)
(* the control plane between the list and the delete.  The hosting         *)
(* environment is a parameter, a record:                                   *)
(*   raises       the values "the probe raises" may take                   *)
(*   answers      the answers a DELETE request may get                     *)
(*   hangs        the values "the list request is never answered" may take *)
(*                (requests.get is called without a timeout, line 97)      *)
(*   write_fails  the values "open or json.dump of update_status raises"   *)
(*                may take; update_status catches nothing (lines 51-65),   *)
(*                so the exception reaches the handler of lines 324-327    *)
(* An iteration that meets a request that is never answered stays in that  *)
(* call: pc becomes "blocked" with the effects made up to the call.  An    *)
(* iteration whose status write raises ends in the handler with the        *)
(* effects made up to the write.  A value computed once is bound with      *)
(* \E x \in {value}.                                                       *)
(***************************************************************************)
QuietEnv == [raises |-> {FALSE}, answers |-> PlainAnswers, hangs |-> {FALSE}, write_fails |-> {FALSE}]
ExitEnv == [raises |-> BOOLEAN, answers |-> DeleteAnswers, hangs |-> {FALSE}, write_fails |-> {FALSE}]
FaultEnv == [raises |-> {FALSE}, answers |-> FaultAnswers, hangs |-> BOOLEAN, write_fails |-> BOOLEAN]

Iteration(limit, env) ==
    /\ pc = "loop"
    /\ now <= limit
    /\ \E rm \in RemovalOutcomes(commands) :
       \E c \in {check_for_commands(commands, rm)} :
       \E dnHang \in (IF c.command = "delete_now" THEN env.hangs ELSE {FALSE}) :
       \E dnApi \in (IF c.command = "delete_now" /\ ~dnHang THEN BOOLEAN ELSE {TRUE}) :
       \E dnInstances \in {IF c.command = "delete_now" /\ ~dnHang
                           THEN get_instances(remote, instance_identifier, dnApi) ELSE {}} :
       \E dnAll \in [DeleteCalls(dnInstances) -> env.answers] :
       \E dnAnswers \in {Answered(dnAll)} :
       \E dnOk \in {Succeeded(dnAnswers)} :
       \E dnGone \in {NotFound(dnAnswers)} :
       \E h \in {HandleCommand(Locals, c.command, dnInstances, dnOk)} :
       \E hHung \in {dnHang \/ Hung(dnAll) # {}} :
       \E hWrite \in (IF h.published # <<>> THEN env.write_fails ELSE {FALSE}) :
       \E reached \in {~h.exit /\ ~SkipMonitoring(h.L) /\ ~hHung /\ ~hWrite} :
       \E raised \in (IF reached THEN env.raises ELSE {FALSE}) :
       \E probing \in {reached /\ ~raised} :
       \E probe \in (IF probing THEN BOOLEAN ELSE {FALSE}) :
       \E e \in {IF probing THEN ProbeEdge(h.L, now, probe) ELSE [L |-> h.L, published |-> <<>>]} :
       \E eWrite \in (IF e.published # <<>> THEN env.write_fails ELSE {FALSE}) :
       \E due \in {probing /\ ~eWrite /\ TimeoutDue(e.L, now, timeout_seconds)} :
       \E toHang \in (IF due THEN env.hangs ELSE {FALSE}) :
       \E toApi \in (IF due /\ ~toHang THEN BOOLEAN ELSE {TRUE}) :
       \E toInstances \in {IF due /\ ~toHang
                           THEN get_instances({i \in remote : i.id \notin (h.deleted \cup dnGone)},
                                              instance_identifier, toApi)
                           ELSE {}} :
       \E toAll \in [DeleteCalls(toInstances) -> env.answers] :
       \E toAnswers \in {Answered(toAll)} :
       \E toOk \in {Succeeded(toAnswers)} :
       \E toGone \in {NotFound(toAnswers)} :
       \E mHung \in {toHang \/ Hung(toAll) # {}} :
       \E m \in {IF probing /\ ~eWrite /\ ~mHung
                 THEN TimeoutCheck(e.L, now, timeout_seconds, toInstances, toOk) ELSE NoTimeout(e.L)} :
       \E mWrite \in (IF m.published # <<>> THEN env.write_fails ELSE {FALSE}) :
       \E hung \in {hHung \/ mHung} :
       \E handled \in {raised \/ hWrite \/ eWrite \/ mWrite} :
       \E xWrite \in (IF handled THEN env.write_fails ELSE {FALSE}) :
       \E x \in {IF handled /\ ~xWrite THEN OnException(m.L) ELSE <<>>} :
       \E wrote \in {(IF hWrite THEN <<>> ELSE h.published) \o (IF eWrite THEN <<>> ELSE e.published)
                     \o (IF mWrite THEN <<>> ELSE m.published) \o x} :
       \E reason \in {IF hung THEN "none"
                      ELSE IF handled THEN (IF xWrite THEN "crash" ELSE "error")
                      ELSE IF h.exit THEN "stop" ELSE IF m.exit THEN "deleted" ELSE "none"} :
       \E sleep \in {IF hung \/ reason # "none" THEN 0
                     ELSE IF probing THEN CHECK_INTERVAL ELSE COMMAND_CHECK_INTERVAL} :
          /\ commands' = c.dir
          /\ process_running' = m.L.process_running
          /\ last_seen_running' = m.L.last_seen_running
          /\ paused' = m.L.paused
          /\ remote' = {i \in remote : i.id \notin (h.deleted \cup m.deleted \cup dnGone \cup toGone
                                                    \cup (IF mHung THEN toOk ELSE {}))}
          /\ now' = now + sleep
          /\ pc' = IF hung THEN "blocked" ELSE IF reason # "none" THEN "exited" ELSE "loop"
          /\ exit_code' = IF reason # "none" THEN exit_code_of(reason) ELSE None
          /\ exited_by' = reason
          /\ status_dir' = PublishAll(status_dir, now, wrote)
          /\ tick' = [time |-> now, before |-> Locals, after_command |-> h.L,
                      scanned |-> {k \in Recognised : commands[k] > 0},
                      command |-> c.command, command_exit |-> h.exit /\ ~hWrite,
                      probed |-> probing, probe |-> probe,
                      dn_listed |-> h.listed, dn_instances |-> Ids(dnInstances),
                      dn_calls |-> h.delete_calls \cap Called(dnAll),
                      dn_deleted |-> h.deleted,
                      timeout |-> m.outcome, to_instances |-> Ids(toInstances),
                      to_calls |-> IF mHung THEN Called(toAll) ELSE m.delete_calls,
                      to_deleted |-> IF mHung THEN toOk ELSE m.deleted,
                      published |-> wrote, slept |-> sleep,
                      dn_api_ok |-> dnApi, to_api_ok |-> toApi, dn_not_found |-> dnGone, to_not_found |-> toGone,
                      raised |-> raised,
                      command_found |-> IF c.command = "none" THEN 0 ELSE commands[c.command],
                      command_left |-> IF c.command = "none" THEN 0 ELSE c.dir[c.command],
                      hung |-> hung, write_failed |-> hWrite \/ eWrite \/ mWrite \/ xWrite]
          /\ hist' = NextHist(hist, now, timeout_seconds, c.command, probing, probe, m.outcome)
          /\ UNCHANGED <<timeout_seconds, instance_identifier, written, scan, probe_call, list_call, status_io, worker, order, race>>

\* the loop beside its controller, and the loop alone, in an environment
\* where the probe returns and the instances stay until the loop deletes them
Tick == Iteration(MaxTime, QuietEnv)
TimerTick == Iteration(MaxTimerTime, QuietEnv)

(***************************************************************************)
(* The controller writes one command file                                  *)
(* (src/vast_auto_shutoff_gui.py:1399-1420, sendCommand).                  *)
(***************************************************************************)
WriteCommand(k) ==
    /\ pc = "loop"
    /\ commands[k] < MaxFiles
    /\ written < MaxWrites
    /\ commands' = [commands EXCEPT ![k] = commands[k] + 1]
    /\ written' = written + 1
    /\ UNCHANGED <<now, timeout_seconds, instance_identifier, process_running, last_seen_running, paused,
                   pc, exit_code, remote, scan, tick, hist, probe_call, list_call, status_dir, exited_by, status_io, worker, order, race>>

Next == Tick \/ \E k \in Recognised : WriteCommand(k)

Spec == Init /\ [][Next]_vars

(***************************************************************************)
(* The loop beside its controller in a hosting environment that may make   *)
(* the probe raise, remove an instance between the loop's list and delete  *)
(* requests, and send the interrupt signal: KeyboardInterrupt is raised in *)
(* main, here during the sleep that ends an iteration, and handled at      *)
(* lines 321-323.                                                          *)
(***************************************************************************)
ExitTick == Iteration(MaxExitTime, ExitEnv)

Interrupt ==
    /\ pc = "loop"
    /\ status_dir' = PublishAll(status_dir, now, OnKeyboardInterrupt(Locals))
    /\ pc' = "exited"
    /\ exit_code' = exit_code_of("interrupt")
    /\ exited_by' = "interrupt"
    /\ UNCHANGED <<now, timeout_seconds, instance_identifier, process_running, last_seen_running, paused,
                   commands, written, remote, scan, tick, hist, probe_call, list_call, status_io, worker, order, race>>

NextExit == ExitTick \/ Interrupt \/ \E k \in Recognised : WriteCommand(k)
SpecExit == Init /\ [][NextExit]_vars

(***************************************************************************)
(* The loop beside its controller in a hosting environment where a status  *)
(* write may raise (disk full, status directory removed or read-only) and  *)
(* a request to the control plane may never be answered.                   *)
(***************************************************************************)
FaultTick == Iteration(MaxFaultTime, FaultEnv)
NextFaults == FaultTick \/ \E k \in Recognised : WriteCommand(k)
SpecFaults == Init /\ [][NextFaults]_vars

(***************************************************************************)
(* The loop beside its controller for the selectors --label may carry: a   *)
(* label, an instance id and the empty string.                             *)
(***************************************************************************)
Selectors == {JobLabel, <<"1">>, <<>>}
InitSelector == InitMain({t \in Timeouts : \A u \in Timeouts : t <= u}, Selectors)
SpecSelector == InitSelector /\ [][Next]_vars

(***************************************************************************)
(* The loop alone: no controller, the longer grace periods.                *)
(***************************************************************************)
InitTimer == InitMain(TimerTimeouts, {JobLabel})
NextTimer == TimerTick
SpecTimer == InitTimer /\ [][NextTimer]_vars

\* the loop beside a controller that asks for immediate deletion before the
\* first iteration and is silent afterwards
\* (src/vast_auto_shutoff_gui.py:1399-1420 writes the delete_now file that
\* src/monitor_process.py:242-251 consumes)
DrainTick == Iteration(MaxDrainTime, QuietEnv)
DeleteNowAtStart == now = 0 /\ tick.time = None /\ WriteCommand("delete_now")
InitDrain == InitMain({t \in Timeouts : \A u \in Timeouts : t <= u}, {JobLabel})
NextDrain == DrainTick \/ DeleteNowAtStart
SpecDrain == InitDrain /\ [][NextDrain]_vars

(***************************************************************************)
(* The pause button of the controller                                      *)
(* (src/vast_auto_shutoff_gui.py:1370-1397, pauseMonitoring): a click      *)
(* writes a pause file when the button reads "Pause Monitoring" and a      *)
(* resume file otherwise, and flips the text of the button.  order keeps   *)
(* the kind written last and whether a pause file and a resume file were   *)
(* waiting together after that write.                                      *)
(***************************************************************************)
pauseMonitoring ==
    /\ pc = "loop"
    /\ now <= MaxOrderTime
    /\ order.clicks < MaxClicks
    /\ \E k \in {IF order.button = "Pause Monitoring" THEN "pause" ELSE "resume"} :
          /\ commands[k] < MaxFiles
          /\ commands' = [commands EXCEPT ![k] = commands[k] + 1]
          /\ order' = [button |-> IF k = "pause" THEN "Resume Monitoring" ELSE "Pause Monitoring",
                       last |-> k,
                       together |-> commands'["pause"] > 0 /\ commands'["resume"] > 0,
                       clicks |-> order.clicks + 1]
    /\ UNCHANGED <<now, timeout_seconds, instance_identifier, process_running, last_seen_running, paused,
                   pc, exit_code, written, remote, scan, tick, hist, probe_call, list_call, status_dir, exited_by,
                   status_io, worker, race>>

OrderTick == Iteration(MaxOrderTime, QuietEnv)
NextOrder == OrderTick \/ pauseMonitoring
SpecOrder == InitDrain /\ [][NextOrder]_vars

(***************************************************************************)
(* The status files while the controller reads them.                       *)
(* update_status (src/monitor_process.py:61-63) opens                      *)
(* status_<int(time.time())>.json with mode "w": the file is created, or   *)
(* truncated when a snapshot of the same second exists, and is empty; the  *)
(* short JSON text stays in the buffer of the file object and reaches the  *)
(* file when the with-block closes it.  The file modified last is the one  *)
(* update_status touched last.  checkMonitorStatus                         *)
(* (src/vast_auto_shutoff_gui.py:1174-1197), run by a timer of another     *)
(* process, picks the file with the greatest modification time and then    *)
(* opens and parses it.  Time passes between the steps.                    *)
(***************************************************************************)
InitStatus ==
    /\ now = 0
    /\ timeout_seconds \in {t \in Timeouts : \A u \in Timeouts : t <= u}
    /\ instance_identifier = JobLabel
    /\ process_running = FALSE
    /\ last_seen_running = 0
    /\ paused = FALSE
    /\ pc = "loop"
    /\ exit_code = None
    /\ commands = EmptyDir
    /\ written = 0
    /\ remote = Instances
    /\ scan = InitScan
    /\ tick = InitTick
    /\ hist = InitHist
    /\ probe_call = InitProbeCall
    /\ list_call = InitListCall
    /\ status_dir = EmptyStatusDir
    /\ exited_by = "none"
    /\ status_io = InitStatusIO
    /\ worker = InitWorker("standalone")
    /\ order = InitOrder
    /\ race = InitRace

\* line 62: open(status_file, "w")
StatusOpen ==
    /\ status_io.writing = None
    /\ status_io' = [status_io EXCEPT !.files[now] = "empty", !.latest = now, !.writing = now]
    /\ UNCHANGED <<now, timeout_seconds, instance_identifier, process_running, last_seen_running, paused, pc,
                   exit_code, commands, written, remote, scan, tick, hist, probe_call, list_call, status_dir,
                   exited_by, worker, order, race>>

\* line 63 and the end of the with-block: json.dump, close
StatusClose ==
    /\ status_io.writing # None
    /\ status_io' = [status_io EXCEPT !.files[status_io.writing] = "complete", !.latest = status_io.writing,
                                      !.writing = None]
    /\ UNCHANGED <<now, timeout_seconds, instance_identifier, process_running, last_seen_running, paused, pc,
                   exit_code, commands, written, remote, scan, tick, hist, probe_call, list_call, status_dir,
                   exited_by, worker, order, race>>

\* a second passes
StatusClock ==
    /\ now < MaxStatusTime
    /\ now' = now + 1
    /\ UNCHANGED <<timeout_seconds, instance_identifier, process_running, last_seen_running, paused, pc,
                   exit_code, commands, written, remote, scan, tick, hist, probe_call, list_call, status_dir,
                   exited_by, status_io, worker, order, race>>

\* gui lines 1176-1179: glob, "if status_files", max by os.path.getmtime
ReaderPick ==
    /\ status_io.picked = None
    /\ status_io.latest # None
    /\ status_io' = [status_io EXCEPT !.picked = status_io.latest]
    /\ UNCHANGED <<now, timeout_seconds, instance_identifier, process_running, last_seen_running, paused, pc,
                   exit_code, commands, written, remote, scan, tick, hist, probe_call, list_call, status_dir,
                   exited_by, worker, order, race>>

\* gui lines 1181-1182: open the file picked and json.load it; an empty file
\* makes json.load raise, which the except of line 1196 logs
ReaderLoad ==
    /\ status_io.picked # None
    /\ status_io' = [status_io EXCEPT !.observed = status_io.files[status_io.picked], !.picked = None]
    /\ UNCHANGED <<now, timeout_seconds, instance_identifier, process_running, last_seen_running, paused, pc,
                   exit_code, commands, written, remote, scan, tick, hist, probe_call, list_call, status_dir,
                   exited_by, worker, order, race>>

NextStatus == StatusOpen \/ StatusClose \/ StatusClock \/ ReaderPick \/ ReaderLoad
SpecStatus == InitStatus /\ [][NextStatus]_vars

(***************************************************************************)
(* One call of check_for_commands on any content of the command directory. *)
(***************************************************************************)
InitCmd ==
    /\ now = 0
    /\ timeout_seconds \in Timeouts
    /\ instance_identifier = JobLabel
    /\ process_running = FALSE
    /\ last_seen_running = 0
    /\ paused = FALSE
    /\ pc = "scan"
    /\ exit_code = None
    /\ commands \in [AllKinds -> 0..MaxFiles]
    /\ written = 0
    /\ remote = Instances
    /\ scan = InitScan
    /\ tick = InitTick
    /\ hist = InitHist
    /\ probe_call = InitProbeCall
    /\ list_call = InitListCall
    /\ status_dir = InitStatusDir
    /\ exited_by = "none"
    /\ status_io = InitStatusIO
    /\ worker = InitWorker("standalone")
    /\ order = InitOrder
    /\ race = InitRace

ScanOnce ==
    /\ pc = "scan"
    /\ \E rm \in RemovalOutcomes(commands) :
       \E c \in {check_for_commands(commands, rm)} :
          /\ scan' = [before |-> commands, rm |-> rm, command |-> c.command, after |-> c.dir]
          /\ commands' = c.dir
          /\ pc' = "scanned"
    /\ UNCHANGED <<now, timeout_seconds, instance_identifier, process_running, last_seen_running, paused,
                   exit_code, written, remote, tick, hist, probe_call, list_call, status_dir, exited_by, status_io, worker, order, race>>

NextCmd == ScanOnce
SpecCmd == InitCmd /\ [][NextCmd]_vars

(***************************************************************************)
(* check_for_commands step by step beside another process that writes and  *)
(* removes command files (src/monitor_process.py:143-192; the controller   *)
(* writes at src/vast_auto_shutoff_gui.py:1399-1420 and clears             *)
(* commands/*.json at lines 935-940).  A file is a kind and a name.        *)
(*   race.pc       "idle", "glob" (before the glob of race.kind), "remove" *)
(*                 (inside the for-loop over the globbed files), "done"    *)
(*   race.dir      the files in the commands directory                     *)
(*   race.kind     position in Priority of the block being executed        *)
(*   race.todo     files the glob returned and the for-loop has not passed *)
(*   race.found    kind of the first glob that returned files              *)
(*   race.command  the value returned                                      *)
(*   race.left     the directory at the return                             *)
(*   race.taken    the other process removed a file of kind race.found     *)
(*                 during the call                                         *)
(***************************************************************************)
Priority == <<"stop", "delete_now", "pause", "resume">>
RaceFiles == [kind : Recognised, name : 1..MaxRaceNames]

UnchangedByRace ==
    UNCHANGED <<now, timeout_seconds, instance_identifier, process_running, last_seen_running, paused,
                pc, exit_code, commands, written, remote, scan, tick, hist, probe_call, list_call, status_dir,
                exited_by, status_io, worker, order>>

\* the state after a block found nothing or its os.remove raised: the next
\* block, or 'return None' after the last one (line 189)
NextBlock(R) ==
    IF R.kind < Len(Priority)
    THEN [R EXCEPT !.pc = "glob", !.kind = R.kind + 1, !.todo = {}]
    ELSE [R EXCEPT !.pc = "done", !.todo = {}, !.command = "none", !.left = R.dir]

\* main calls check_for_commands (line 227)
ScanCall ==
    /\ race.pc = "idle"
    /\ race' = [race EXCEPT !.pc = "glob", !.kind = 1, !.todo = {}, !.found = "none", !.taken = FALSE]
    /\ UnchangedByRace

\* lines 147-148, 158-159, 169-170, 179-180: glob and 'if files'
ScanGlob ==
    /\ race.pc = "glob"
    /\ \E files \in {{f \in race.dir : f.kind = Priority[race.kind]}} :
          race' = IF files = {}
                  THEN NextBlock(race)
                  ELSE [race EXCEPT !.pc = "remove", !.todo = files,
                                    !.found = IF race.found = "none" THEN Priority[race.kind] ELSE race.found]
    /\ UnchangedByRace

\* lines 150-155 and the three blocks like it: one os.remove of the
\* for-loop, which removes the file or raises (always when the file is
\* gone), or the return after the loop
ScanRemove ==
    /\ race.pc = "remove"
    /\ \/ /\ race.todo = {}
          /\ race' = [race EXCEPT !.pc = "done", !.command = Priority[race.kind], !.left = race.dir]
       \/ \E f \in race.todo :
             \/ /\ f \in race.dir
                /\ race' = [race EXCEPT !.dir = race.dir \ {f}, !.todo = race.todo \ {f}]
             \/ race' = NextBlock(race)
    /\ UnchangedByRace

\* sendCommand of another process writes a file
OtherWrite ==
    /\ race.pc # "done"
    /\ \E f \in RaceFiles \ race.dir : race' = [race EXCEPT !.dir = race.dir \cup {f}]
    /\ UnchangedByRace

\* startMonitoring of another process removes a file it globbed
OtherClear ==
    /\ race.pc # "done"
    /\ \E f \in race.dir :
          race' = [race EXCEPT !.dir = race.dir \ {f},
                               !.taken = race.taken \/ (race.pc # "idle" /\ f.kind = race.found)]
    /\ UnchangedByRace

NextRace == ScanCall \/ ScanGlob \/ ScanRemove \/ OtherWrite \/ OtherClear
SpecRace == InitDrain /\ [][NextRace]_vars

(***************************************************************************)
(* One call of is_process_running, of the monitor process and of the       *)
(* standalone script, on any --processes string and process snapshot.      *)
(***************************************************************************)
InitProbeCalls(positions) ==
    /\ now = 0
    /\ timeout_seconds \in {t \in Timeouts : \A u \in Timeouts : t <= u}
    /\ instance_identifier = JobLabel
    /\ process_running = FALSE
    /\ last_seen_running = 0
    /\ paused = FALSE
    /\ pc = "probe"
    /\ exit_code = None
    /\ commands = EmptyDir
    /\ written = 0
    /\ remote = Instances
    /\ scan = InitScan
    /\ tick = InitTick
    /\ hist = InitHist
    /\ \E w \in SeqsUpTo(WatchChars, MaxWatchLen) : \E S \in ProcessSnapshots :
       \E u \in positions :
          probe_call = [InitProbeCall EXCEPT !.process_names = w, !.procs = S, !.unnamed = u]
    /\ list_call = InitListCall
    /\ status_dir = InitStatusDir
    /\ exited_by = "none"
    /\ status_io = InitStatusIO
    /\ worker = InitWorker("standalone")
    /\ order = InitOrder
    /\ race = InitRace

\* every process reports its name
InitProbe == InitProbeCalls({"none"})

ProbeOnce ==
    /\ pc = "probe"
    /\ \E mr \in {is_process_running_raises(probe_call.process_names, probe_call.procs, probe_call.unnamed)} :
       \E sr \in {standalone_is_process_running_raises(Split(probe_call.process_names), probe_call.procs,
                                                       probe_call.unnamed)} :
          probe_call' = [probe_call EXCEPT
                            !.done = TRUE,
                            !.monitor_raised = mr,
                            !.standalone_raised = sr,
                            !.monitor = ~mr /\ is_process_running(probe_call.process_names, probe_call.procs),
                            !.standalone = ~sr /\ standalone_is_process_running(Split(probe_call.process_names),
                                                                               probe_call.procs)]
    /\ pc' = "probed"
    /\ UNCHANGED <<now, timeout_seconds, instance_identifier, process_running, last_seen_running, paused,
                   exit_code, commands, written, remote, scan, tick, hist, list_call, status_dir, exited_by, status_io, worker, order, race>>

NextProbe == ProbeOnce
SpecProbe == InitProbe /\ [][NextProbe]_vars

\* one call on a snapshot that holds one process without a name
InitProbeUnnamed == InitProbeCalls(Unnamed \ {"none"})
SpecProbeUnnamed == InitProbeUnnamed /\ [][NextProbe]_vars

(***************************************************************************)
(* One call of get_instances on any identifier and any answer of the API.  *)
(* The account holds instances with distinct ids; a label may be empty,    *)
(* all digits, or shared.                                                  *)
(***************************************************************************)
SelectorChars == {"1", "2", "a", " "}
ListedIds == {1, 12}
ListedLabels == {<<>>, <<"1">>, <<"a">>}
Accounts == {S \in SUBSET [id : ListedIds, label : ListedLabels] : \A i, j \in S : i.id = j.id => i = j}

InitList ==
    /\ now = 0
    /\ timeout_seconds \in {t \in Timeouts : \A u \in Timeouts : t <= u}
    /\ instance_identifier = JobLabel
    /\ process_running = FALSE
    /\ last_seen_running = 0
    /\ paused = FALSE
    /\ pc = "list"
    /\ exit_code = None
    /\ commands = EmptyDir
    /\ written = 0
    /\ remote = Instances
    /\ scan = InitScan
    /\ tick = InitTick
    /\ hist = InitHist
    /\ probe_call = InitProbeCall
    /\ \E S \in Accounts : \E identifier \in SeqsUpTo(SelectorChars, MaxSelLen) : \E ok \in BOOLEAN :
          list_call = [InitListCall EXCEPT !.listed = S, !.identifier = identifier, !.api_ok = ok]
    /\ status_dir = InitStatusDir
    /\ exited_by = "none"
    /\ status_io = InitStatusIO
    /\ worker = InitWorker("standalone")
    /\ order = InitOrder
    /\ race = InitRace

ListOnce ==
    /\ pc = "list"
    /\ list_call' = [list_call EXCEPT
                        !.done = TRUE,
                        !.result = get_instances(list_call.listed, list_call.identifier, list_call.api_ok)]
    /\ pc' = "listed"
    /\ UNCHANGED <<now, timeout_seconds, instance_identifier, process_running, last_seen_running, paused,
                   exit_code, commands, written, remote, scan, tick, hist, probe_call, status_dir, exited_by, status_io, worker, order, race>>

NextList == ListOnce
SpecList == InitList /\ [][NextList]_vars

(***************************************************************************)
(* The loop of the standalone script (src/vast_auto_shutoff.py:220-264)    *)
(* and of MonitorThread.run (src/vast_auto_shutoff_gui.py:223-317).  Both  *)
(* keep last_active_time and instances_terminated: a running probe sets    *)
(* the time and clears the flag; a not-running probe with the timeout      *)
(* reached and the flag clear lists the instances whose label contains     *)
(* instance_label, and when the list is not empty calls delete for each    *)
(* and sets the flag whatever the delete calls returned.  A list request   *)
(* that fails yields no instance (get_instances returns [], the thread's   *)
(* except of line 310 ends the attempt).                                   *)
(***************************************************************************)
standalone_get_instances(listed, instance_label, apiOk) ==
    IF ~apiOk THEN {}
    ELSE IF instance_label = <<>> THEN listed
    ELSE {i \in listed : In(Lower(instance_label), Lower(i.label))}

\* "inactive_minutes >= timeout_minutes and not instances_terminated"
WorkerDue(W, t, timeout) == t - W.last_active_time >= timeout /\ ~W.instances_terminated

\* the loop body that never sets instances_terminated
IdleCheck_flag_never_set(W, t, timeout, current_process_running, instances) ==
    IF current_process_running
    THEN [W EXCEPT !.last_active_time = t, !.instances_terminated = FALSE]
    ELSE W

IdleCheck(W, t, timeout, current_process_running, instances) ==
    IF current_process_running
    THEN [W EXCEPT !.last_active_time = t, !.instances_terminated = FALSE]
    ELSE IF WorkerDue(W, t, timeout) /\ instances # {}
    THEN [W EXCEPT !.instances_terminated = TRUE]
    ELSE W

\* one iteration, its sleep included; MonitorThread skips the body while
\* paused and sleeps one second
WorkerTick ==
    /\ worker.pc = "loop"
    /\ worker.running
    /\ now <= MaxWorkerTime
    /\ \E skip \in {worker.variant = "thread" /\ worker.paused} :
       \E probe \in (IF skip THEN {FALSE} ELSE BOOLEAN) :
       \E listed \in {~skip /\ ~probe /\ WorkerDue(worker, now, timeout_seconds)} :
       \E apiOk \in (IF listed THEN BOOLEAN ELSE {TRUE}) :
       \E instances \in {IF listed THEN standalone_get_instances(remote, instance_identifier, apiOk) ELSE {}} :
       \E answers \in [DeleteCalls(instances) -> PlainAnswers] :
       \E okIds \in {Succeeded(answers)} :
       \E W \in {IF skip THEN worker ELSE IdleCheck(worker, now, timeout_seconds, probe, instances)} :
          /\ worker' = [W EXCEPT
                 !.tick = [time |-> now, probe |-> probe, listed |-> listed, list_ok |-> apiOk,
                           instances |-> Ids(instances), calls |-> DeleteCalls(instances), deleted |-> okIds,
                           retry_due |-> worker.prev_empty, skipped |-> skip],
                 !.fired_at = IF probe THEN None
                              ELSE IF listed /\ worker.fired_at = None THEN now ELSE worker.fired_at,
                 !.deleted_at = IF probe THEN None
                                ELSE IF okIds # {} /\ worker.deleted_at = None THEN now ELSE worker.deleted_at,
                 !.failed_at = IF probe THEN None
                               ELSE IF DeleteCalls(instances) # {}
                               THEN (IF DeleteCalls(instances) \ okIds # {} THEN now ELSE None)
                               ELSE worker.failed_at,
                 !.prev_empty = listed /\ instances = {}]
          /\ remote' = {i \in remote : i.id \notin okIds}
          /\ now' = now + (IF skip THEN 1 ELSE worker.check_interval)
    /\ UNCHANGED <<timeout_seconds, instance_identifier, process_running, last_seen_running, paused, pc,
                   exit_code, commands, written, scan, tick, hist, probe_call, list_call, status_dir,
                   exited_by, status_io, order, race>>

StandaloneTick == worker.variant = "standalone" /\ WorkerTick
ThreadTick == worker.variant = "thread" /\ WorkerTick

InitWorkersWith(timeouts, workers) ==
    /\ now = 0
    /\ timeout_seconds \in timeouts
    /\ instance_identifier = JobLabel
    /\ process_running = FALSE
    /\ last_seen_running = 0
    /\ paused = FALSE
    /\ pc = "loop"
    /\ exit_code = None
    /\ commands = EmptyDir
    /\ written = 0
    /\ remote = Instances
    /\ scan = InitScan
    /\ tick = InitTick
    /\ hist = InitHist
    /\ probe_call = InitProbeCall
    /\ list_call = InitListCall
    /\ status_dir = EmptyStatusDir
    /\ exited_by = "none"
    /\ status_io = InitStatusIO
    /\ worker \in workers
    /\ order = InitOrder
    /\ race = InitRace

InitWorkers == InitWorkersWith(WorkerTimeouts, {InitWorker("standalone"), InitWorker("thread")})

NextWorker == StandaloneTick \/ ThreadTick
SpecWorker == InitWorkers /\ [][NextWorker]_vars

(***************************************************************************)
(* MonitorThread.run step by step beside the UI thread                     *)
(* (src/vast_auto_shutoff_gui.py:223-404).  The fields paused, running and *)
(* instances_terminated are plain attributes: pause, resume, stop and      *)
(* delete_instances_now, called on the UI thread, assign them without a    *)
(* lock, and run reads running and paused only at the top of an iteration  *)
(* (lines 223-225).  The positions of run: "loop" (the while test),        *)
(* "probe", "list" (before requests.get), "delete" (before a               *)
(* requests.delete), "sleep", "exited".                                    *)
(***************************************************************************)
UnchangedByThread ==
    UNCHANGED <<timeout_seconds, instance_identifier, process_running, last_seen_running, paused, pc,
                exit_code, commands, written, scan, tick, hist, probe_call, list_call, status_dir,
                exited_by, status_io, order, race>>

\* lines 223-227: while self.running; if self.paused: sleep(1), continue
ThreadLoop ==
    /\ worker.pc = "loop"
    /\ now <= MaxThreadTime
    /\ worker' = [worker EXCEPT !.pc = IF ~worker.running THEN "exited"
                                       ELSE IF worker.paused THEN "loop" ELSE "probe"]
    /\ now' = IF worker.running /\ worker.paused THEN now + 1 ELSE now
    /\ UNCHANGED remote
    /\ UnchangedByThread

\* lines 230-262: the probe, the timer, the test of the timeout
ThreadProbe ==
    /\ worker.pc = "probe"
    /\ \E probe \in BOOLEAN :
          worker' = IF probe
                    THEN [worker EXCEPT !.last_active_time = now, !.instances_terminated = FALSE, !.pc = "sleep"]
                    ELSE [worker EXCEPT !.pc = IF WorkerDue(worker, now, timeout_seconds) THEN "list" ELSE "sleep"]
    /\ UNCHANGED <<now, remote>>
    /\ UnchangedByThread

\* lines 265-281, 308-311: the list request and the label filter
ThreadList ==
    /\ worker.pc = "list"
    /\ \E apiOk \in BOOLEAN :
       \E instances \in {standalone_get_instances(remote, instance_identifier, apiOk)} :
          worker' = IF instances = {}
                    THEN [worker EXCEPT !.pc = "sleep"]
                    ELSE [worker EXCEPT !.todo = DeleteCalls(instances), !.pc = "delete"]
    /\ UNCHANGED <<now, remote>>
    /\ UnchangedByThread

\* lines 284-303: one delete request of the for-loop, in the order of the
\* list; after the last one instances_terminated is set
ThreadDelete ==
    /\ worker.pc = "delete"
    /\ \E id \in {i \in worker.todo : \A j \in worker.todo : i <= j} :
       \E answer \in PlainAnswers :
          /\ worker' = [worker EXCEPT
                           !.todo = worker.todo \ {id},
                           !.late_delete = worker.late_delete \/ worker.paused \/ ~worker.running,
                           !.instances_terminated = IF worker.todo = {id} THEN TRUE
                                                    ELSE worker.instances_terminated,
                           !.pc = IF worker.todo = {id} THEN "sleep" ELSE "delete"]
          /\ remote' = IF delete_instance(answer) THEN {i \in remote : i.id # id} ELSE remote
    /\ UNCHANGED now
    /\ UnchangedByThread

\* line 317: time.sleep(check_interval)
ThreadSleep ==
    /\ worker.pc = "sleep"
    /\ now <= MaxThreadTime
    /\ worker' = [worker EXCEPT !.pc = "loop"]
    /\ now' = now + worker.check_interval
    /\ UNCHANGED remote
    /\ UnchangedByThread

\* lines 323-335, on the UI thread
UiStop ==
    /\ worker.pc # "exited"
    /\ worker.running
    /\ worker' = [worker EXCEPT !.running = FALSE]
    /\ UNCHANGED <<now, remote>>
    /\ UnchangedByThread

UiPause ==
    /\ worker.pc # "exited"
    /\ ~worker.paused
    /\ worker' = [worker EXCEPT !.paused = TRUE]
    /\ UNCHANGED <<now, remote>>
    /\ UnchangedByThread

UiResume ==
    /\ worker.pc # "exited"
    /\ worker.paused
    /\ worker' = [worker EXCEPT !.paused = FALSE]
    /\ UNCHANGED <<now, remote>>
    /\ UnchangedByThread

\* lines 337-404, on the UI thread: list, delete every match, set
\* instances_terminated when the list was not empty
UiDeleteNow ==
    /\ worker.pc # "exited"
    /\ \E apiOk \in BOOLEAN :
       \E instances \in {standalone_get_instances(remote, instance_identifier, apiOk)} :
       \E answers \in [DeleteCalls(instances) -> PlainAnswers] :
          /\ instances # {} \/ ~apiOk
          /\ worker' = [worker EXCEPT !.instances_terminated = IF instances # {} THEN TRUE
                                                               ELSE worker.instances_terminated]
          /\ remote' = {i \in remote : i.id \notin Succeeded(answers)}
    /\ UNCHANGED now
    /\ UnchangedByThread

InitThread == InitWorkersWith(ThreadTimeouts, {[InitWorker("thread") EXCEPT !.check_interval = ThreadInterval]})
NextThread ==
    \/ ThreadLoop \/ ThreadProbe \/ ThreadList \/ ThreadDelete \/ ThreadSleep
    \/ UiStop \/ UiPause \/ UiResume \/ UiDeleteNow
SpecThread == InitThread /\ [][NextThread]_vars

(***************************************************************************)
(* Claims about check_for_commands, under SpecCmd.                         *)
(***************************************************************************)
Rank == [k \in Recognised |-> CASE k = "stop" -> 1 [] k = "delete_now" -> 2 [] k = "pause" -> 3 [] k = "resume" -> 4]

\* no os.remove of the call raised
NoRemovalError == \A k \in Recognised : scan.rm[k] = scan.before[k]

\* C4: when every file removal succeeds, check_for_commands returns the kind of
\* highest priority (stop > delete_now > pause > resume) that has a file in the
\* directory, and None exactly when no file of a recognised kind is there.
C4_HighestPriorityKind ==
    (pc = "scanned" /\ NoRemovalError) =>
        /\ (scan.command = "none") <=> (\A k \in Recognised : scan.before[k] = 0)
        /\ scan.command # "none" =>
              /\ scan.command \in Recognised
              /\ scan.before[scan.command] > 0
              /\ \A k \in Recognised : Rank[k] < Rank[scan.command] => scan.before[k] = 0

\* a scan without removal error that found delete_now, pause, resume and an
\* unrecognised file, no stop, and returned delete_now
C4_Witness ==
    /\ pc = "scanned" /\ NoRemovalError
    /\ scan.before["stop"] = 0
    /\ \A k \in AllKinds \ {"stop"} : scan.before[k] > 0
    /\ scan.command = "delete_now"

\* C5: a call that returns kind K has removed every file of kind K that was
\* there at the scan and has left the files of every other kind, recognised
\* or not, as they were.
C5_OnlyWinnerRemoved ==
    (pc = "scanned" /\ scan.command # "none") =>
        /\ scan.after[scan.command] = 0
        /\ \A k \in AllKinds \ {scan.command} : scan.after[k] = scan.before[k]

(***************************************************************************)
(* Claims about the loop beside its controller, under Spec.                *)
(***************************************************************************)
\* the last iteration started with the grace period used up
ExpiredAtStart == ~tick.before.process_running /\ tick.time - tick.before.last_seen_running >= timeout_seconds

\* the last iteration made no request to the control plane
NoControlPlaneCall == ~tick.dn_listed /\ tick.dn_calls = {} /\ tick.timeout = "none" /\ tick.to_calls = {}

\* C1: an iteration that finds a stop file when the grace period has expired
\* ends the loop in that iteration and makes no list or delete request.
C1_StopOutranksTimeout ==
    (tick.time # None /\ "stop" \in tick.scanned /\ ExpiredAtStart) =>
        (pc = "exited" /\ tick.command = "stop" /\ NoControlPlaneCall)

\* C6: an iteration that finds a stop file and a delete_now file at the same
\* scan stops the loop without a request to the control plane, whatever the
\* outcome of the file removals.
C6_StopSuppressesDeleteNow ==
    (tick.time # None /\ {"stop", "delete_now"} \subseteq tick.scanned) =>
        (pc = "exited" /\ tick.command_exit /\ NoControlPlaneCall)

\* C7: an iteration in which paused is true after the command branch makes no
\* probe, leaves last_seen_running and process_running alone and makes no
\* timeout check; the iteration that consumes pause is such an iteration, the
\* iteration that consumes resume goes on to the probe.
C7_PausedSkipsMonitoring ==
    tick.time # None =>
        /\ tick.after_command.paused =>
              /\ ~tick.probed
              /\ tick.timeout = "none" /\ tick.to_calls = {}
              /\ last_seen_running = tick.before.last_seen_running
              /\ process_running = tick.before.process_running
        /\ tick.command = "pause" => (tick.after_command.paused /\ paused)
        /\ tick.command = "resume" => (~tick.after_command.paused /\ tick.probed)

\* a paused iteration, no command, with the grace period used up, and an
\* earlier iteration that consumed pause
C7_Witness ==
    /\ tick.time # None /\ tick.before.paused /\ tick.command = "none"
    /\ ExpiredAtStart
    /\ pc = "loop" /\ paused

\* C8: an iteration that consumes delete_now lists the instances and requests
\* the deletion of every instance listed, also when the process is running,
\* the grace period has not expired, or the loop is paused.
C8_DeleteNowUnconditional ==
    (tick.time # None /\ tick.command = "delete_now") =>
        (tick.dn_listed /\ tick.dn_calls = tick.dn_instances)

\* delete_now consumed while paused, with the process recorded as running: both
\* selected instances get a delete request
C8_Witness ==
    /\ tick.time # None /\ tick.command = "delete_now"
    /\ tick.before.paused /\ tick.before.process_running
    /\ tick.dn_calls = {1, 2}

\* C9: a delete_now whose list call returns nothing leaves last_seen_running,
\* paused and process_running as they were and does not end the loop.
C9_DeleteNowZeroKeepsState ==
    (tick.time # None /\ tick.command = "delete_now" /\ tick.dn_instances = {}) =>
        /\ tick.after_command = tick.before
        /\ ~tick.command_exit
        /\ tick.before.paused => (Locals = tick.before /\ pc = "loop")

\* delete_now with nothing listed, part of the grace period used
C9_Witness ==
    /\ tick.time # None /\ tick.command = "delete_now" /\ tick.dn_instances = {}
    /\ tick.time > tick.before.last_seen_running
    /\ pc = "loop"

\* C2: once the probe has changed from running to not running at time T, with
\* no running probe, no pause and no delete_now since, no timeout deletion is
\* made before T + grace period and one is made by the first iteration at or
\* after T + grace period.
C2_TimeoutAfterGraceFromEdge ==
    (hist.idle_since # None /\ ~hist.dirty) =>
        /\ tick.timeout # "none" => tick.time >= hist.idle_since + timeout_seconds
        /\ hist.fired_at # None =>
              /\ hist.fired_at >= hist.idle_since + timeout_seconds
              /\ hist.fired_at < hist.idle_since + timeout_seconds + CHECK_INTERVAL
        /\ (tick.probed /\ tick.time >= hist.idle_since + timeout_seconds) => hist.fired_at # None

\* a timeout deletion made after a running-to-not-running edge at T > 0
C2_Witness ==
    /\ hist.idle_since # None /\ hist.idle_since > 0 /\ ~hist.dirty
    /\ hist.fired_at # None /\ tick.timeout # "none"

C10_ZeroMatchShortRetry ==
    /\ tick.timeout = "zero" => timeout_seconds - (tick.time - last_seen_running) = RETRY_SECONDS
    /\ (tick.timeout # "none" /\ hist.prev_zero_at # None) => tick.time > hist.prev_zero_at + CHECK_INTERVAL
    /\ hist.zero_at # None => tick.time < hist.zero_at + timeout_seconds

(***************************************************************************)
(* Claims about the outcome of a deletion, under Spec and SpecTimer.       *)
(***************************************************************************)
\* the last snapshot the last iteration published
LastPublished == tick.published[Len(tick.published)]

\* C11: a timeout deletion that lists at least one instance and has at least
\* one delete succeed publishes the final snapshot and ends the loop: the
\* iteration that did it is the last one.  A delete_now whose delete
\* succeeds does not end the loop and leaves paused, last_seen_running and
\* process_running as they were: a paused loop sleeps and loops again, a
\* loop that is not paused goes on to its probe.
C11_TimeoutDeletionStopsDeleteNowDoesNot ==
    /\ tick.timeout # "none" /\ tick.to_instances # {} /\ tick.to_deleted # {} =>
          /\ pc = "exited"
          /\ tick.slept = 0
          /\ LastPublished = Snapshot("Instances Deleted, Monitoring Stopped", FALSE, None)
    /\ tick.command = "delete_now" /\ tick.dn_deleted # {} =>
          /\ ~tick.command_exit
          /\ tick.after_command = tick.before
          /\ tick.probed = ~tick.before.paused
          /\ tick.before.paused => pc = "loop" /\ Locals = tick.before /\ tick.slept = COMMAND_CHECK_INTERVAL

\* both cases have happened in one run: a delete_now deleted an instance
\* and the loop went on, a later timeout deletion deleted one and ended it
C11_Witness ==
    /\ tick.timeout = "deleted" /\ tick.to_deleted # {} /\ pc = "exited"
    /\ remote \cap {i \in Instances : i.label = JobLabel} = {}
    /\ tick.to_instances # {1, 2}

\* C12: a timeout deletion that lists instances and has every delete fail
\* sets last_seen_running to the time of the iteration and leaves the loop
\* running; while the process stays not running the next timeout deletion
\* is made no earlier than a full grace period after the failed one, and
\* the first iteration at or after that time makes it.
C12_FailedDeletionRetriedAfterGrace ==
    /\ tick.timeout = "failed" =>
          /\ tick.to_instances # {} /\ tick.to_calls # {} /\ tick.to_deleted = {}
          /\ last_seen_running = tick.time
          /\ pc = "loop"
    /\ hist.prev_failed_at # None /\ tick.timeout # "none" => tick.time >= hist.prev_failed_at + timeout_seconds
    /\ hist.failed_at # None /\ tick.time > hist.failed_at => tick.time < hist.failed_at + timeout_seconds

\* a failed timeout deletion was retried a grace period later
C12_Witness ==
    /\ hist.prev_failed_at # None
    /\ tick.timeout # "none"
    /\ tick.time = hist.prev_failed_at + timeout_seconds

\* C13 as stated: the process never runs and no command is issued; at every
\* time at or after the grace period since main started, exactly one
\* timeout deletion has been made (none before the grace period ran out).
C13_ExactlyOneDeletion ==
    ~hist.ever_run /\ tick.time # None =>
        /\ tick.time < timeout_seconds => hist.attempts = 0
        /\ tick.time >= timeout_seconds => hist.attempts = 1

\* C13, amended: the process never runs and no command is issued; no
\* timeout deletion is made before the grace period since main started has
\* run out, the first one is made by the first iteration at or after that
\* time, for the instances the configured identifier selects; another one
\* follows only a timeout deletion that listed nothing or whose deletes all
\* failed, never one that deleted an instance.
C13_FirstDeletionAtExpiryThenRetries ==
    ~hist.ever_run /\ tick.time # None =>
        /\ tick.time < timeout_seconds => hist.attempts = 0
        /\ tick.time >= timeout_seconds =>
              /\ hist.attempts >= 1
              /\ hist.fired_at >= timeout_seconds
              /\ hist.fired_at < timeout_seconds + CHECK_INTERVAL
        /\ hist.attempts >= 2 => hist.prev_outcome \in {"zero", "failed"}
        /\ hist.last_outcome = "deleted" => pc = "exited"
        /\ tick.timeout # "none" =>
              tick.to_instances \subseteq Ids(get_instances(Instances, instance_identifier, TRUE))

\* the process never ran and a second timeout deletion was made
C13_Witness == ~hist.ever_run /\ hist.attempts = 2 /\ tick.timeout # "none"

(***************************************************************************)
(* Claims about repeated commands, under Spec.                             *)
(***************************************************************************)
\* C14: a pause consumed while the loop is paused leaves it paused with
\* last_seen_running and process_running as they were, does not end the
\* loop and does what a single pause does and no more: it publishes the
\* one "Monitoring Paused" snapshot, skips the probe, calls the control
\* plane for nothing and sleeps COMMAND_CHECK_INTERVAL.  A resume consumed
\* while the loop is not paused leaves the three locals as they were.
C14_PauseResumeIdempotent ==
    /\ tick.command = "pause" /\ tick.before.paused =>
          /\ paused
          /\ Locals = tick.before
          /\ pc = "loop" /\ exit_code = None
          /\ tick.published = <<Snapshot("Monitoring Paused", tick.before.process_running, None)>>
          /\ ~tick.probed
          /\ NoControlPlaneCall
          /\ tick.slept = COMMAND_CHECK_INTERVAL
    /\ tick.command = "resume" /\ ~tick.before.paused =>
          /\ tick.after_command = tick.before
          /\ ~tick.command_exit

\* a second pause was consumed by a paused loop
C14_Witness == tick.command = "pause" /\ tick.before.paused /\ paused /\ written = 2

(***************************************************************************)
(* Claims about is_process_running, under SpecProbe.                       *)
(***************************************************************************)
\* two characters are the same letter in either case, or the same character
SameLetter(c, d) == c = d \/ \E k \in 1..Len(UpperCase) : {c, d} = {UpperCase[k], LowerCase[k]}
EqualsIgnoringCase(s, r) == Len(s) = Len(r) /\ \A i \in 1..Len(s) : SameLetter(s[i], r[i])
ContainsIgnoringCase(s, entry) ==
    \E i \in 1..(Len(s) - Len(entry) + 1) : EqualsIgnoringCase(SubSeq(s, i, i + Len(entry) - 1), entry)
\* the entries of the watch-list: the parts of --processes between commas
WatchEntries == {Split(probe_call.process_names)[k] : k \in 1..Len(Split(probe_call.process_names))}

\* C15: the monitor process's is_process_running is true iff some process
\* name contains, ignoring case, a comma-separated entry of --processes
\* stripped of surrounding whitespace; the standalone script's is true iff
\* some process name equals, ignoring case, an entry of the list it is given.
C15_RunningIffNameMatches ==
    probe_call.done =>
        /\ probe_call.monitor =
              (\E name \in probe_call.procs : \E entry \in WatchEntries : ContainsIgnoringCase(name, Strip(entry)))
        /\ probe_call.standalone =
              (\E name \in probe_call.procs : \E entry \in WatchEntries : EqualsIgnoringCase(name, entry))

\* the two modes differ: --processes " a" against the one process "Ab"
C15_Witness ==
    /\ probe_call.done
    /\ probe_call.monitor /\ ~probe_call.standalone
    /\ probe_call.procs = {<<"A", "b">>}
    /\ probe_call.process_names = <<" ", "a">>

(***************************************************************************)
(* Claims about get_instances, under SpecList.                             *)
(***************************************************************************)
\* C16: when the API answers with its list, get_instances returns the
\* listed instances whose id equals the identifier read as an integer when
\* int() accepts the identifier, whatever their labels, and otherwise the
\* listed instances whose label equals the identifier.
C16_SelectedByIdOrLabel ==
    list_call.done /\ list_call.api_ok =>
        list_call.result =
            IF ParseInt(list_call.identifier).ok
            THEN {i \in list_call.listed : i.id = ParseInt(list_call.identifier).value}
            ELSE {i \in list_call.listed : i.label = list_call.identifier}

\* C16 for the identifiers that are not empty
C16_NonEmptySelectedByIdOrLabel == list_call.identifier # <<>> => C16_SelectedByIdOrLabel

(***************************************************************************)
(* Claims about the answers of the control plane, the status files and the *)
(* ways main ends, under SpecExit.                                         *)
(***************************************************************************)
\* C17: the loop can tell "nothing matches / not found" from an error: a
\* timeout deletion whose list request failed is not handled as one that
\* listed nothing, and a timeout deletion whose delete requests were all
\* answered "not found" is not handled as one whose deletes failed.
C17_NotFoundToldFromError ==
    /\ tick.timeout # "none" /\ ~tick.to_api_ok => tick.timeout # "zero"
    /\ tick.to_calls # {} /\ tick.to_calls \subseteq tick.to_not_found => tick.timeout # "failed"

\* C18: no update_status call of a run writes to a file name an earlier
\* call of the run wrote.
C18_StatusNamesUnique == ~status_dir.replaced

\* C19: when main ends because it consumed a stop command or because it
\* was interrupted, the file written last holds the "Monitoring Stopped"
\* snapshot with the running flag of that moment, written by the step that
\* ended main; nothing is published after it.
C19_FinalSnapshotOnStopAndInterrupt ==
    /\ tick.command = "stop" => exited_by = "stop"
    /\ exited_by \in {"stop", "interrupt"} =>
          /\ pc = "exited"
          /\ status_dir.snapshot = Snapshot("Monitoring Stopped", process_running, None)
          /\ status_dir.name = now
    /\ exited_by = "stop" => LastPublished = status_dir.snapshot /\ Len(tick.published) = 1

\* main was interrupted while paused, after iterations that published
C19_Witness ==
    /\ exited_by = "interrupt"
    /\ paused
    /\ tick.command = "pause"
    /\ status_dir.snapshot.status = "Monitoring Stopped"

\* C20: when an exception leaves the loop body main publishes the error
\* snapshot and the process ends with a code that is not zero; after a stop
\* command or a successful timeout deletion it ends with code zero.
C20_ErrorExitsNonZero ==
    /\ exited_by = "error" =>
          /\ pc = "exited"
          /\ status_dir.snapshot = Snapshot("Error", process_running, None)
          /\ exit_code # 0
    /\ exited_by \in {"stop", "deleted"} => exit_code = 0

\* C20 without the exit code of the error case
C20_ErrorSnapshotAndGracefulZero ==
    /\ exited_by = "error" =>
          /\ pc = "exited"
          /\ status_dir.snapshot = Snapshot("Error", process_running, None)
    /\ exited_by \in {"stop", "deleted"} => exit_code = 0

(***************************************************************************)
(* Claims about the timer, under SpecTimer.                                *)
(***************************************************************************)
\* C21: no iteration leaves last_seen_running earlier than it found it:
\* every assignment of the loop (running edge, not-running edge, reset
\* after failed deletes, reset after an empty list) moves it forward or
\* leaves it where it was.
C21_TimerNeverMovesBackward ==
    tick.time # None => last_seen_running >= tick.before.last_seen_running

\* C21 for the grace periods of at least RETRY_SECONDS
C21_LongGraceTimerNeverMovesBackward ==
    timeout_seconds >= RETRY_SECONDS => C21_TimerNeverMovesBackward

(***************************************************************************)
(* Claims about command delivery, under Spec.                              *)
(***************************************************************************)
\* C22: a command file is delivered at most once: an iteration that acts on
\* a command of kind K found at least one file of kind K and leaves no file
\* of kind K that its scan saw, so no file that caused an action is there
\* for a later scan; this with several files of one kind and with file
\* removals that fail.
C22_DeliveredAtMostOnce ==
    (tick.time # None /\ tick.command # "none") =>
        /\ tick.command \in tick.scanned
        /\ tick.command_found >= 1
        /\ tick.command_left = 0

\* two pause files delivered as one pause by one iteration
C22_Witness ==
    /\ tick.time # None
    /\ tick.command = "pause"
    /\ tick.command_found = 2
    /\ tick.command_left = 0
    /\ commands["pause"] = 0
    /\ paused

(***************************************************************************)
(* Claims about file removals that fail, under SpecCmd.                    *)
(***************************************************************************)
\* C23: whether or not an os.remove of the call raises, check_for_commands
\* returns the kind of highest priority that has a file in the directory:
\* a failed removal neither withholds the command of that kind nor lets a
\* command of lower priority be returned ahead of it.
C23_RemovalFailureStillDelivers ==
    pc = "scanned" =>
        \A k \in Recognised :
            (scan.before[k] > 0 /\ \A j \in Recognised : Rank[j] < Rank[k] => scan.before[j] = 0)
                => scan.command = k

\* a scan whose removal of the stop file raised: the call returns (nothing is
\* raised to the loop), the stop file is still there
C23_RemovalFailed ==
    /\ pc = "scanned"
    /\ scan.before["stop"] = 1
    /\ scan.rm["stop"] = 0
    /\ scan.after["stop"] = 1

(***************************************************************************)
(* Claims about the delete calls of one deletion, under Spec.              *)
(***************************************************************************)
\* C24: a deletion, by delete_now or by the timeout, calls delete_instance
\* for every instance its list call matched, whatever the answers to the
\* other delete calls of the same deletion.
C24_DeleteAttemptedForEveryMatch ==
    tick.time # None =>
        /\ tick.dn_calls = tick.dn_instances
        /\ tick.to_calls = tick.to_instances

\* a timeout deletion that matched instances 1 and 2: the delete of 1 failed,
\* the delete of 2 was made all the same and succeeded
C24_Witness ==
    /\ tick.time # None
    /\ tick.to_instances = {1, 2}
    /\ tick.to_calls = {1, 2}
    /\ tick.to_deleted = {2}
    /\ pc = "exited"

(***************************************************************************)
(* Claims about failing status writes and unanswered requests, under       *)
(* SpecFaults.                                                             *)
(***************************************************************************)
\* C25: a status write that fails does not end the loop: after an iteration
\* in which open or json.dump of update_status raised, main is still in its
\* loop.
C25_WriteFailureKeepsLoop ==
    (tick.time # None /\ tick.write_failed) => pc = "loop"

\* the write of "Monitoring Paused" raised and so did the write of the
\* handler: main has ended with the traceback, exit code 1, the pause
\* command consumed and no snapshot of the iteration written
C25_FailedWriteEndsMain ==
    /\ tick.time # None
    /\ tick.command = "pause"
    /\ tick.write_failed
    /\ tick.published = <<>>
    /\ pc = "exited"
    /\ exited_by = "crash"
    /\ exit_code = 1

\* C27: every iteration completes: main is never left inside a request to
\* the control plane that is not answered.
C27_NoCallBlocksForever == pc # "blocked"

\* the list request of the timeout deletion is never answered: main stays in
\* requests.get
C27_BlockedInListCall ==
    /\ pc = "blocked"
    /\ tick.hung
    /\ tick.probed
    /\ tick.command = "none"
    /\ tick.to_calls = {}

(***************************************************************************)
(* Claims about a probe that meets an inaccessible process, under          *)
(* SpecProbeUnnamed.                                                       *)
(***************************************************************************)
\* C26: a process whose name is not available is skipped: neither
\* is_process_running raises, and each returns what it returns for the
\* processes that report their names.
C26_UnnamedProcessSkipped ==
    probe_call.done =>
        /\ ~probe_call.monitor_raised
        /\ ~probe_call.standalone_raised
        /\ probe_call.monitor = is_process_running(probe_call.process_names, probe_call.procs)
        /\ probe_call.standalone =
              standalone_is_process_running(Split(probe_call.process_names), probe_call.procs)

\* the watched process "ab" runs, the process without a name is visited
\* first: both functions raise AttributeError
C26_ProbeRaised ==
    /\ probe_call.done
    /\ probe_call.unnamed = "first"
    /\ probe_call.process_names = <<"a", "b">>
    /\ probe_call.procs = {<<"A", "b">>}
    /\ probe_call.monitor_raised
    /\ probe_call.standalone_raised

\* a process without a name that is visited after a match is never looked at
C26_UnnamedAfterMatchHarmless ==
    (probe_call.done /\ probe_call.unnamed = "last"
        /\ is_process_running(probe_call.process_names, probe_call.procs))
        => (~probe_call.monitor_raised /\ probe_call.monitor)

(***************************************************************************)
(* Claims about how long a command file stays, under SpecCmd.              *)
(***************************************************************************)
\* C28 as stated: the scan of an iteration leaves no file of a recognised
\* kind in the command directory.
C28_EveryFileConsumedInItsTick ==
    pc = "scanned" => \A k \in Recognised : scan.after[k] = 0

\* C28: the scan removes every file of the kind it returns and leaves the
\* files of the kinds of lower priority for a later scan; when no removal
\* fails, the files of the returned kind are the only ones it removes.
C28_ReturnedKindConsumedOthersWait ==
    pc = "scanned" =>
        /\ scan.command # "none" =>
              /\ scan.after[scan.command] = 0
              /\ \A k \in Recognised : Rank[k] > Rank[scan.command] => scan.after[k] = scan.before[k]
        /\ NoRemovalError =>
              \A k \in Recognised : scan.after[k] = IF k = scan.command THEN 0 ELSE scan.before[k]

\* a stop file and two pause files: the scan returns stop, the pause files
\* are still there after it
C28_Witness ==
    /\ pc = "scanned" /\ NoRemovalError
    /\ scan.before["stop"] = 1 /\ scan.before["pause"] = 2
    /\ scan.command = "stop"
    /\ scan.after["stop"] = 0 /\ scan.after["pause"] = 2

(***************************************************************************)
(* Claims about the status writes of one iteration, under Spec.            *)
(***************************************************************************)
\* C29 as stated: every iteration writes exactly one status snapshot.
C29_OneSnapshotPerTick ==
    tick.time # None => Len(tick.published) = 1

\* C29: the status snapshots an iteration writes are one for a consumed
\* stop, pause or resume, one for an edge of the probe and one for the state
\* after the probe: none in a paused iteration without pause command, at
\* least one and at most three in every iteration that probes.
C29_SnapshotsPerTick ==
    tick.time # None =>
        /\ Len(tick.published) =
              (IF tick.command \in {"stop", "pause", "resume"} THEN 1 ELSE 0)
              + (IF tick.probed /\ tick.probe # tick.after_command.process_running THEN 1 ELSE 0)
              + (IF tick.probed THEN 1 ELSE 0)
        /\ tick.probed => Len(tick.published) \in 1..3
        /\ (~tick.probed /\ tick.command \in {"none", "delete_now"}) => tick.published = <<>>

\* an iteration that consumed resume and saw the process start: "Monitoring
\* Resumed", the edge's "Process Running" and the "Process Running" of the
\* state, three snapshots
C29_Witness ==
    /\ tick.time # None
    /\ tick.command = "resume"
    /\ tick.before.paused
    /\ tick.probed /\ tick.probe /\ ~tick.before.process_running
    /\ Len(tick.published) = 3

\* a paused iteration without command: no snapshot
C29_PausedTickWritesNothing ==
    /\ tick.time # None
    /\ tick.before.paused
    /\ tick.command = "none"
    /\ tick.published = <<>>

(***************************************************************************)
(* Claims about the status files and their reader, under SpecStatus.       *)
(***************************************************************************)
\* C30: the controller, reading the most recently modified status file
\* while the monitor writes, never finds an empty or partly written file.
C30_ReaderSeesWholeSnapshot ==
    status_io.observed \in {"nothing", "complete"}

\* the controller read the file between open and close of update_status
C30_ReaderSawEmptyFile ==
    /\ status_io.observed = "empty"
    /\ status_io.writing # None
    /\ status_io.files[status_io.writing] = "empty"

(***************************************************************************)
(* Claims about the loop of the standalone script and of MonitorThread,    *)
(* under SpecWorker.                                                       *)
(***************************************************************************)
\* C31 as stated: in a run of not-running iterations only the first
\* iteration that triggers the deletion lists the instances.
C31_DeletionTriggeredOncePerEpisode ==
    (worker.tick.time # None /\ worker.tick.listed) => worker.fired_at = worker.tick.time

\* C31: the deletion is triggered only when the process has not run for the
\* timeout; once an iteration of a run of not-running iterations has deleted
\* an instance, no later iteration of that run lists or deletes; an
\* iteration whose list held no instance is followed by a new list when the
\* process is still not running.
C31_NoDeletionAfterDeletion ==
    worker.tick.time # None =>
        /\ worker.tick.listed =>
              /\ worker.tick.time - worker.last_active_time >= timeout_seconds
              /\ worker.deleted_at \in {None, worker.tick.time}
        /\ (worker.tick.retry_due /\ ~worker.tick.probe) => worker.tick.listed
        /\ worker.tick.calls # {} => worker.tick.listed

\* the list of the iteration at 60 s failed, the iteration at 90 s listed
\* again and deleted instance 1, the iterations after it did not list
C31_Witness ==
    /\ worker.tick.time = 150
    /\ ~worker.tick.listed /\ ~worker.tick.probe
    /\ worker.fired_at = 60
    /\ worker.deleted_at = 90
    /\ worker.instances_terminated
    /\ {i.id : i \in remote} = {2, 3}

\* C32: a delete call that failed is tried again while the process stays not
\* running: no iteration comes more than one timeout after the last
\* iteration that had a delete call fail.
C32_FailedDeleteRetried ==
    (worker.tick.time # None /\ worker.failed_at # None) =>
        worker.tick.time - worker.failed_at <= timeout_seconds

\* both delete calls of the iteration at 60 s failed; at 180 s the process
\* has not run since, both instances are still there and no iteration has
\* listed or deleted again
C32_NoRetryAfterFailure ==
    /\ worker.tick.time = 180
    /\ worker.failed_at = 60
    /\ worker.fired_at = 60
    /\ worker.deleted_at = None
    /\ worker.instances_terminated
    /\ remote = Instances

(***************************************************************************)
(* Claims about MonitorThread beside the UI thread, under SpecThread.      *)
(***************************************************************************)
\* C33: the loop sends no delete request of the timeout while paused is set
\* (pause() has returned, resume() has not been called) or after stop() has
\* returned.
C33_NoDeleteWhilePausedOrStopped == ~worker.late_delete

\* pause() returned while run was between its test of paused and its delete
\* request: the request was sent and deleted instance 1 with paused set
C33_DeletedWhilePaused ==
    /\ worker.late_delete
    /\ worker.paused
    /\ worker.running
    /\ worker.pc = "delete"
    /\ {i.id : i \in remote} = {2, 3}

(***************************************************************************)
(* Claims about the selector of the deletions, under SpecSelector.         *)
(***************************************************************************)
\* the instance matches the configured selector: its id is the number the
\* selector spells, or its label is the selector
MatchesSelector(i) ==
    IF ParseInt(instance_identifier).ok
    THEN i.id = ParseInt(instance_identifier).value
    ELSE i.label = instance_identifier

\* C34: every delete request of an iteration, of the delete_now branch and
\* of the timeout branch, is for an instance that matches the selector.
C34_OnlyMatchingDeleted ==
    tick.time # None =>
        \A i \in Instances : i.id \in (tick.dn_calls \cup tick.to_calls) => MatchesSelector(i)

\* with the empty selector the timeout deletion has deleted the instance
\* labelled "gpu" along with the others
C34_EmptySelectorDeletesAll ==
    /\ instance_identifier = <<>>
    /\ tick.time # None
    /\ tick.to_calls = {1, 2, 3}
    /\ 3 \in tick.to_deleted
    /\ pc = "exited"

\* C34 for the selectors that are not empty
C34_NonEmptyOnlyMatchingDeleted == instance_identifier # <<>> => C34_OnlyMatchingDeleted

C36_LastWrittenWins ==
    (/\ order.together
     /\ commands["pause"] = 0 /\ commands["resume"] = 0
     /\ tick.command \in {"pause", "resume"})
    => (paused <=> order.last = "pause")

\* resume was written first and pause last, both waited together, both are
\* consumed, and the loop monitors while the button offers to resume
C36_PauseWrittenLastLeavesLoopRunning ==
    /\ order.together /\ order.last = "pause" /\ order.button = "Resume Monitoring"
    /\ commands["pause"] = 0 /\ commands["resume"] = 0
    /\ tick.command = "resume" /\ tick.before.paused
    /\ ~paused
    /\ pc = "loop"

(***************************************************************************)
(* C37: pausing does not stop the inactivity clock.  An iteration that     *)
(* ends paused leaves last_seen_running as it was, and the iteration that  *)
(* consumes resume while the process was and is not running makes the      *)
(* timeout deletion exactly if now - last_seen_running has reached the     *)
(* timeout, the time spent paused included                                 *)
(* (src/monitor_process.py:238-241, 253-256, 274-282).                     *)
(***************************************************************************)
C37_PauseKeepsClockRunning ==
    /\ (tick.time # None /\ paused) => last_seen_running = tick.before.last_seen_running
    /\ (/\ tick.time # None /\ tick.command = "resume"
        /\ ~tick.before.process_running /\ tick.probed /\ ~tick.probe)
       => /\ tick.after_command.last_seen_running = tick.before.last_seen_running
          /\ (tick.timeout # "none" <=> tick.time - tick.before.last_seen_running >= timeout_seconds)

\* the loop was paused before the timeout, resume is consumed after it on a
\* second that no unpaused iteration would have fallen on, and the timeout
\* deletion is made in that iteration
C37_Witness ==
    /\ tick.time # None /\ tick.command = "resume" /\ tick.before.paused
    /\ ~tick.before.process_running /\ tick.probed /\ ~tick.probe
    /\ tick.time % CHECK_INTERVAL # 0
    /\ tick.time - tick.before.last_seen_running >= timeout_seconds
    /\ tick.time - tick.before.last_seen_running < timeout_seconds + CHECK_INTERVAL
    /\ tick.timeout = "deleted"

(***************************************************************************)
(* C38: every countdown published by an iteration that probed the process  *)
(* as not running shows a time that is not negative, not more than the     *)
(* timeout, and equal to timeout - (now - last_seen_running) for the       *)
(* last_seen_running of the moment of publishing, also in the iteration    *)
(* whose timeout deletion failed or listed nothing.                        *)
(* remaining is computed at src/monitor_process.py:275-276, before the     *)
(* resets of lines 297 and 301, and formatted at lines 304-310.            *)
(***************************************************************************)
C38_CountdownShowsRemainingTime ==
    (tick.time # None /\ tick.probed /\ ~tick.probe) =>
        \A i \in 1..Len(tick.published) :
            tick.published[i].status = "Process Not Running - countdown" =>
                \E shown \in {ShownSeconds(FormatRemaining(tick.published[i].time_remaining))} :
                    /\ shown >= 0
                    /\ shown <= timeout_seconds
                    /\ shown = timeout_seconds - (tick.time - last_seen_running)

\* every delete of a timeout deletion failed three seconds after the timeout:
\* the countdown published by that iteration shows 59m 57s, while
\* last_seen_running was just set to now
C38_FailedDeletionShowsWrappedTime ==
    /\ tick.time # None /\ tick.timeout = "failed"
    /\ last_seen_running = tick.time
    /\ \E i \in 1..Len(tick.published) :
          /\ tick.published[i].status = "Process Not Running - countdown"
          /\ tick.published[i].time_remaining < 0
          /\ FormatRemaining(tick.published[i].time_remaining) = <<59, 57>>
          /\ ShownSeconds(FormatRemaining(tick.published[i].time_remaining)) > timeout_seconds

(***************************************************************************)
(* C39: last_seen_running is never later than the current time, whatever   *)
(* the timeout.  It is set to datetime.now() at                            *)
(* src/monitor_process.py:218, 264, 270 and 297, and to                    *)
(* now - timeout + 1 minute at line 301.                                   *)
(***************************************************************************)
C39_LastSeenNotInFuture == last_seen_running <= now

\* a timeout deletion that listed nothing, with a timeout below one minute,
\* left last_seen_running ahead of the clock by the time the loop wakes up
C39_ZeroMatchSetsFutureTime ==
    /\ tick.time # None /\ tick.timeout = "zero"
    /\ timeout_seconds < RETRY_SECONDS
    /\ last_seen_running = tick.time - timeout_seconds + RETRY_SECONDS
    /\ now = tick.time + CHECK_INTERVAL
    /\ last_seen_running > now
    /\ pc = "loop"

(***************************************************************************)
(* C40: no command is lost.  When check_for_commands returns and the first *)
(* of its globs that found files found files of kind K, either K is the    *)
(* value returned or a file of kind K is in the directory at the return,   *)
(* whatever another process wrote or removed meanwhile.                    *)
(* An os.remove of a file that the other process removed after the glob    *)
(* raises, and the block falls through to the next kind                    *)
(* (src/monitor_process.py:150-155).                                       *)
(***************************************************************************)
C40_CommandNeverLost ==
    (race.pc = "done" /\ race.found # "none") =>
        \/ race.command = race.found
        \/ \E f \in race.left : f.kind = race.found

\* the glob found a stop file, the other process removed it before
\* os.remove, and the call returned without a command and without a stop
\* file left
C40_StopFileVanishes ==
    /\ race.pc = "done" /\ race.found = "stop"
    /\ race.command # "stop"
    /\ \A f \in race.left : f.kind # "stop"
    /\ race.taken

\* without a removal by the other process during the call the command is
\* returned or a file of its kind is left
C40_NotLostWithoutRemoval ==
    (race.pc = "done" /\ race.found # "none" /\ ~race.taken) =>
        \/ race.command = race.found
        \/ \E f \in race.left : f.kind = race.found

====
